---- MODULE Spec2Model ----
(***************************************************************************)
(* A model of the jul transpiler (extended Yul -> Yul): the constant       *)
(* folder, the struct bit-packing, the preprocessor @if, the method        *)
(* dispatcher and the dependency flush of the transformer.                 *)
(*                                                                         *)
(* Machine words.  The program works on 256-bit words held in JavaScript   *)
(* BigInts.  TLC's integers are 32 bits wide, so the model keeps the       *)
(* structure of the word (WordBytes bytes of ByteBits bits, two's          *)
(* complement, big-endian byte numbering) and scales its size: a word has  *)
(* WordBits = WordBytes * ByteBits bits.  Every place where the source     *)
(* writes 256, 255, 32, 31, 8 or 0xff is written here in terms of          *)
(* WordBits, WordBytes and ByteBits.                                       *)
(***************************************************************************)
EXTENDS Integers, Sequences, FiniteSets, TLC

\* ------------------------------------------------------------------------
\* Bounds of the model
\* ------------------------------------------------------------------------

\* bytes in a machine word (32 in the program)
WordBytes == 4

\* bits in a byte (8 in the program)
ByteBits == 2

WordBits == WordBytes * ByteBits

RECURSIVE Pow2(_)
Pow2(n) == IF n = 0 THEN 1 ELSE 2 * Pow2(n - 1)

\* const U256_MAX = (1n << 256n) - 1n;
U256_MAX == Pow2(WordBits) - 1

\* const I256_SIGN = 1n << 255n;
I256_SIGN == Pow2(WordBits - 1)

\* 0xffn, the mask of one byte
ByteMask == Pow2(ByteBits) - 1

Words == 0 .. U256_MAX

\* ------------------------------------------------------------------------
\* JavaScript BigInt arithmetic, as the source uses it
\* ------------------------------------------------------------------------

Abs(x) == IF x < 0 THEN -x ELSE x

RECURSIVE BitLen(_)
BitLen(x) == IF x = 0 THEN 0 ELSE 1 + BitLen(x \div 2)

RECURSIVE BitAnd(_, _)
BitAnd(a, b) ==
  IF a = 0 \/ b = 0 THEN 0
  ELSE (a % 2) * (b % 2) + 2 * BitAnd(a \div 2, b \div 2)

RECURSIVE BitOr(_, _)
BitOr(a, b) ==
  IF a = 0 THEN b
  ELSE IF b = 0 THEN a
  ELSE (IF (a % 2) + (b % 2) > 0 THEN 1 ELSE 0) + 2 * BitOr(a \div 2, b \div 2)

RECURSIVE BitXor(_, _)
BitXor(a, b) ==
  IF a = 0 THEN b
  ELSE IF b = 0 THEN a
  ELSE (((a % 2) + (b % 2)) % 2) + 2 * BitXor(a \div 2, b \div 2)

\* a & b where b >= 0; a negative BigInt is an infinite two's complement
JsAnd(a, b) ==
  IF a >= 0 THEN BitAnd(a, b) ELSE BitAnd(a % Pow2(BitLen(b)), b)

\* a / b on BigInts truncates toward zero (b # 0)
JsDiv(a, b) ==
  IF (a < 0) = (b < 0) THEN Abs(a) \div Abs(b) ELSE -(Abs(a) \div Abs(b))

\* a % b on BigInts takes the sign of the dividend (b # 0)
JsRem(a, b) == a - b * JsDiv(a, b)

\* a >> n on BigInts rounds toward minus infinity
RECURSIVE JsShr(_, _)
JsShr(a, n) ==
  IF n = 0 \/ a = 0 \/ a = -1 THEN a ELSE JsShr(a \div 2, n - 1)

\* a << n for n >= 0 and a >= 0, with n small enough for TLC's integers
JsShl(a, n) == a * Pow2(n)

\* (a << n) & U256_MAX for a in Words: the bits shifted past the word are
\* dropped at each doubling instead of at the end
RECURSIVE ShlWord(_, _)
ShlWord(a, n) ==
  IF n = 0 \/ a = 0 THEN a ELSE ShlWord((2 * a) % (U256_MAX + 1), n - 1)

\* (x ** y) & U256_MAX for x, y in Words: the product is reduced at each
\* step instead of at the end
RECURSIVE ExpWord(_, _)
ExpWord(x, y) ==
  IF y = 0 THEN 1
  ELSE IF y % 2 = 1 THEN (x * ExpWord(x, y - 1)) % (U256_MAX + 1)
  ELSE ExpWord((x * x) % (U256_MAX + 1), y \div 2)

\* ------------------------------------------------------------------------
\* AST nodes.  The text of a numeric literal is its sequence of digits (after
\* the 0x of a HexNumber); the text of a BoolLiteral is <<0>> for false and
\* <<1>> for true.
\* ------------------------------------------------------------------------

\* values below this are written in decimal by SubLiteral
DecimalLimit == 1024

Null == [type |-> "Null", subtype |-> "", value |-> <<>>]

Identifier(name) == [type |-> "Identifier", subtype |-> name, value |-> <<>>]

\* BigInt.prototype.toString(radix)
RECURSIVE ToDigits(_, _)
ToDigits(n, radix) ==
  IF n < radix THEN <<n>>
  ELSE Append(ToDigits(n \div radix, radix), n % radix)

\* BigInt(string) on a digit string
RECURSIVE FromDigits(_, _)
FromDigits(ds, radix) ==
  IF Len(ds) = 0 THEN 0
  ELSE radix * FromDigits(SubSeq(ds, 1, Len(ds) - 1), radix) + ds[Len(ds)]

SubLiteral(value) ==
  LET num == JsAnd(value, U256_MAX)
      str == ToDigits(num, 16)
  IN IF num < DecimalLimit
       THEN [type |-> "DecimalNumber", value |-> ToDigits(num, 10)]
       ELSE [type |-> "HexNumber",
             value |-> IF Len(str) % 2 = 1 THEN <<0>> \o str ELSE str]

\* SubLiteral on a JavaScript number
SubLiteralNumber(value) ==
  [type |-> "DecimalNumber", value |-> ToDigits(value, 10)]

Literal(value) ==
  LET node == SubLiteral(value)
  IN [type |-> "Literal", subtype |-> node.type, value |-> node.value]

\* Literal on a JavaScript number: Literal(0), Literal(Number(x === y))
LiteralNumber(value) ==
  LET node == SubLiteralNumber(value)
  IN [type |-> "Literal", subtype |-> node.type, value |-> node.value]

HexNumber(digits) ==
  [type |-> "Literal", subtype |-> "HexNumber", value |-> digits]

DecimalNumber(digits) ==
  [type |-> "Literal", subtype |-> "DecimalNumber", value |-> digits]

BoolLiteral(b) ==
  [type |-> "Literal", subtype |-> "BoolLiteral", value |-> <<b>>]

Call(name, args) ==
  [type |-> "FunctionCall", subtype |-> name, value |-> <<>>, args |-> args]

isLiteral(node) ==
  /\ node.type = "Literal"
  /\ node.subtype \in {"HexNumber", "DecimalNumber", "BoolLiteral"}

isStringLiteral(node) ==
  node.type = "Literal" /\ node.subtype = "StringLiteral"

isLiterals(args) == \A i \in 1 .. Len(args) : isLiteral(args[i])

\* /^0x0+$/, /^0+$/, 'false'
isZero(node) ==
  /\ node.type = "Literal"
  /\ node.subtype \in {"HexNumber", "DecimalNumber", "BoolLiteral"}
  /\ Len(node.value) > 0
  /\ \A i \in 1 .. Len(node.value) : node.value[i] = 0

\* /^0x0*1$/, /^0*1$/, 'true'
isOne(node) ==
  /\ node.type = "Literal"
  /\ node.subtype \in {"HexNumber", "DecimalNumber", "BoolLiteral"}
  /\ Len(node.value) > 0
  /\ node.value[Len(node.value)] = 1
  /\ \A i \in 1 .. Len(node.value) - 1 : node.value[i] = 0

\* toBigInt(node.value): 'false', 'true', or BigInt() of the digits
toBigInt(node) ==
  IF node.subtype = "BoolLiteral" THEN node.value[1]
  ELSE IF node.subtype = "HexNumber" THEN FromDigits(node.value, 16)
  ELSE FromDigits(node.value, 10)

isCall(node, name, length) ==
  /\ node.type = "FunctionCall"
  /\ node.subtype = name
  /\ Len(node.args) = length

isLtCall(node) == isCall(node, "lt", 2)

isGtCall(node) == isCall(node, "gt", 2)

\* ------------------------------------------------------------------------
\* Expression folding: fold(name, args) returns the replacement node, or Null
\* where the source returns null.
\* ------------------------------------------------------------------------

\* signed with the sign test dropped: the operand stays unsigned
signedNoSign(x) == x

\* if (x & I256_SIGN) x = -(-x & U256_MAX);
signed(x) ==
  IF JsAnd(x, I256_SIGN) # 0 THEN -JsAnd(-x, U256_MAX) ELSE x

foldAdd(args) ==
  IF Len(args) # 2 THEN Null
  ELSE IF isZero(args[1]) THEN args[2]
  ELSE IF isZero(args[2]) THEN args[1]
  ELSE IF ~isLiterals(args) THEN Null
  ELSE Literal(toBigInt(args[1]) + toBigInt(args[2]))

foldSub(args) ==
  IF Len(args) # 2 THEN Null
  ELSE IF isZero(args[2]) THEN args[1]
  ELSE IF ~isLiterals(args) THEN Null
  ELSE Literal(toBigInt(args[1]) - toBigInt(args[2]))

foldMul(args) ==
  IF Len(args) # 2 THEN Null
  ELSE IF isZero(args[1]) \/ isZero(args[2]) THEN LiteralNumber(0)
  ELSE IF isOne(args[1]) THEN args[2]
  ELSE IF isOne(args[2]) THEN args[1]
  ELSE IF ~isLiterals(args) THEN Null
  ELSE Literal(toBigInt(args[1]) * toBigInt(args[2]))

foldDiv(name, args) ==
  IF Len(args) # 2 THEN Null
  ELSE IF isZero(args[1]) \/ isZero(args[2]) THEN LiteralNumber(0)
  ELSE IF name = "div" /\ isOne(args[2]) THEN args[1]
  ELSE IF ~isLiterals(args) THEN Null
  ELSE LET x == IF name = "sdiv" THEN signed(toBigInt(args[1]))
                ELSE toBigInt(args[1])
           y == IF name = "sdiv" THEN signed(toBigInt(args[2]))
                ELSE toBigInt(args[2])
       IN Literal(JsDiv(x, y))

foldMod(name, args) ==
  IF Len(args) # 2 THEN Null
  ELSE IF isZero(args[1]) \/ isZero(args[2]) THEN LiteralNumber(0)
  ELSE IF isOne(args[2]) THEN LiteralNumber(0)
  ELSE IF ~isLiterals(args) THEN Null
  ELSE LET x == IF name = "smod" THEN signed(toBigInt(args[1]))
                ELSE toBigInt(args[1])
           y == IF name = "smod" THEN signed(toBigInt(args[2]))
                ELSE toBigInt(args[2])
       IN Literal(JsRem(x, y))

\* Literal(x ** y): the power is reduced to a word as it is built (ExpWord)
foldExp(args) ==
  IF Len(args) # 2 THEN Null
  ELSE IF isZero(args[2]) THEN LiteralNumber(1)
  ELSE IF isOne(args[2]) THEN args[1]
  ELSE IF isZero(args[1]) THEN LiteralNumber(0)
  ELSE IF ~isLiterals(args) THEN Null
  ELSE Literal(ExpWord(toBigInt(args[1]), toBigInt(args[2])))

foldAddmod(args) ==
  IF Len(args) # 3 THEN Null
  ELSE IF isZero(args[3]) THEN LiteralNumber(0)
  ELSE IF ~isLiterals(args) THEN Null
  ELSE Literal(JsRem(toBigInt(args[1]) + toBigInt(args[2]), toBigInt(args[3])))

foldMulmod(args) ==
  IF Len(args) # 3 THEN Null
  ELSE IF isZero(args[1]) \/ isZero(args[2]) \/ isZero(args[3])
    THEN LiteralNumber(0)
  ELSE IF ~isLiterals(args) THEN Null
  ELSE Literal(JsRem(toBigInt(args[1]) * toBigInt(args[2]), toBigInt(args[3])))

foldNot(args) ==
  IF Len(args) # 1 THEN Null
  ELSE IF ~isLiterals(args) THEN Null
  ELSE Literal(BitXor(toBigInt(args[1]), U256_MAX))

foldAnd(args) ==
  IF Len(args) # 2 THEN Null
  ELSE IF isZero(args[1]) THEN LiteralNumber(0)
  ELSE IF isZero(args[2]) THEN LiteralNumber(0)
  ELSE IF ~isLiterals(args) THEN Null
  ELSE Literal(JsAnd(toBigInt(args[1]), toBigInt(args[2])))

foldOr(args) ==
  IF Len(args) # 2 THEN Null
  ELSE IF isZero(args[1]) THEN args[2]
  ELSE IF isZero(args[2]) THEN args[1]
  ELSE IF ~isLiterals(args) THEN Null
  ELSE Literal(BitOr(toBigInt(args[1]), toBigInt(args[2])))

foldXor(args) ==
  IF Len(args) # 2 THEN Null
  ELSE IF isZero(args[1]) THEN args[2]
  ELSE IF isZero(args[2]) THEN args[1]
  ELSE IF ~isLiterals(args) THEN Null
  ELSE Literal(BitXor(toBigInt(args[1]), toBigInt(args[2])))

\* Literal(num << shift): the shifted value is reduced to a word as it is
\* built (ShlWord)
foldShl(args) ==
  IF Len(args) # 2 THEN Null
  ELSE IF isZero(args[1]) THEN args[2]
  ELSE IF ~isLiterals(args) THEN Null
  ELSE Literal(ShlWord(toBigInt(args[2]), toBigInt(args[1])))

foldShr(name, args) ==
  IF Len(args) # 2 THEN Null
  ELSE IF isZero(args[1]) THEN args[2]
  ELSE IF ~isLiterals(args) THEN Null
  ELSE LET shift == toBigInt(args[1])
           num == IF name = "sar" THEN signed(toBigInt(args[2]))
                  ELSE toBigInt(args[2])
       IN Literal(JsShr(num, shift))

foldSignextend(args) ==
  IF Len(args) # 2 THEN Null
  ELSE IF ~isLiterals(args) THEN Null
  ELSE LET b == toBigInt(args[1])
           x == toBigInt(args[2])
           bit == b * ByteBits + (ByteBits - 1)
           mask == JsShl(1, bit) - 1
       IN IF b > WordBytes - 1 THEN Literal(x)
          ELSE IF JsAnd(x, JsShl(1, bit)) # 0
            THEN Literal(BitOr(x, BitXor(mask, U256_MAX)))
          ELSE Literal(JsAnd(x, mask))

foldByte(args) ==
  IF Len(args) # 2 THEN Null
  ELSE IF ~isLiterals(args) THEN Null
  ELSE LET pos == toBigInt(args[1])
           num == toBigInt(args[2])
           shift == (WordBytes - 1 - pos) * ByteBits
       IN IF pos > WordBytes - 1 THEN LiteralNumber(0)
          ELSE Literal(JsAnd(JsShr(num, shift), ByteMask))

foldIszero(args) ==
  IF Len(args) # 1 THEN Null
  ELSE IF isLtCall(args[1]) /\ isLiteral(args[1].args[2])
    THEN LET x == args[1].args[1]
             n == toBigInt(args[1].args[2])
         IN IF n = 0 THEN LiteralNumber(1)
            ELSE Call("gt", <<x, Literal(n - 1)>>)
  ELSE IF isGtCall(args[1]) /\ isLiteral(args[1].args[2])
    THEN LET x == args[1].args[1]
             n == toBigInt(args[1].args[2])
         IN IF n = U256_MAX THEN LiteralNumber(1)
            ELSE Call("lt", <<x, Literal(n + 1)>>)
  ELSE IF ~isLiteral(args[1]) THEN Null
  ELSE LiteralNumber(IF toBigInt(args[1]) = 0 THEN 1 ELSE 0)

foldEq(args) ==
  IF Len(args) # 2 THEN Null
  ELSE IF isStringLiteral(args[1]) /\ isStringLiteral(args[2])
    THEN LiteralNumber(IF args[1].value = args[2].value THEN 1 ELSE 0)
  ELSE IF isLiterals(args)
    THEN LiteralNumber(IF toBigInt(args[1]) = toBigInt(args[2]) THEN 1 ELSE 0)
  ELSE IF isZero(args[1]) THEN Call("iszero", <<args[2]>>)
  ELSE IF isZero(args[2]) THEN Call("iszero", <<args[1]>>)
  ELSE Null

foldLt(name, args) ==
  IF Len(args) # 2 THEN Null
  ELSE IF ~isLiterals(args) THEN Null
  ELSE LET lhs == IF name = "slt" THEN signed(toBigInt(args[1]))
                  ELSE toBigInt(args[1])
           rhs == IF name = "slt" THEN signed(toBigInt(args[2]))
                  ELSE toBigInt(args[2])
       IN LiteralNumber(IF lhs < rhs THEN 1 ELSE 0)

foldGt(name, args) ==
  IF Len(args) # 2 THEN Null
  ELSE IF ~isLiterals(args) THEN Null
  ELSE LET lhs == IF name = "sgt" THEN signed(toBigInt(args[1]))
                  ELSE toBigInt(args[1])
           rhs == IF name = "sgt" THEN signed(toBigInt(args[2]))
                  ELSE toBigInt(args[2])
       IN LiteralNumber(IF lhs > rhs THEN 1 ELSE 0)

fold(name, args) ==
  CASE name = "add" -> foldAdd(args)
    [] name = "sub" -> foldSub(args)
    [] name = "mul" -> foldMul(args)
    [] name \in {"div", "sdiv"} -> foldDiv(name, args)
    [] name \in {"mod", "smod"} -> foldMod(name, args)
    [] name = "exp" -> foldExp(args)
    [] name = "addmod" -> foldAddmod(args)
    [] name = "mulmod" -> foldMulmod(args)
    [] name = "not" -> foldNot(args)
    [] name = "and" -> foldAnd(args)
    [] name = "or" -> foldOr(args)
    [] name = "xor" -> foldXor(args)
    [] name = "shl" -> foldShl(args)
    [] name \in {"shr", "sar"} -> foldShr(name, args)
    [] name = "signextend" -> foldSignextend(args)
    [] name = "byte" -> foldByte(args)
    [] name = "iszero" -> foldIszero(args)
    [] name = "eq" -> foldEq(args)
    [] name \in {"lt", "slt"} -> foldLt(name, args)
    [] name \in {"gt", "sgt"} -> foldGt(name, args)
    [] OTHER -> Null

\* ------------------------------------------------------------------------
\* The EVM's semantics of the folded opcodes on words (the reference the
\* folder is compared with)
\* ------------------------------------------------------------------------

EvmModulus == U256_MAX + 1

EvmBit(x, i) == (x \div Pow2(i)) % 2

EvmSigned(x) == IF x >= I256_SIGN THEN x - EvmModulus ELSE x

EvmSign(i) == IF i < 0 THEN -1 ELSE 1

RECURSIVE EvmBitwise(_, _, _, _)
EvmBitwise(Op(_, _), x, y, i) ==
  IF i < 0 THEN 0
  ELSE Op(EvmBit(x, i), EvmBit(y, i)) * Pow2(i) + EvmBitwise(Op, x, y, i - 1)

EvmAndBit(a, b) == a * b

EvmOrBit(a, b) == IF a + b > 0 THEN 1 ELSE 0

EvmXorBit(a, b) == IF a = b THEN 0 ELSE 1

RECURSIVE EvmExp(_, _)
EvmExp(x, y) ==
  IF y = 0 THEN 1
  ELSE LET h == EvmExp(x, y \div 2)
           sq == (h * h) % EvmModulus
       IN IF y % 2 = 1 THEN (sq * x) % EvmModulus ELSE sq

EvmSignextend(b, x) ==
  IF b >= WordBytes - 1 THEN x
  ELSE LET t == ByteBits * (b + 1) - 1
           low == x % Pow2(t + 1)
       IN IF EvmBit(x, t) = 1 THEN low + (EvmModulus - Pow2(t + 1)) ELSE low

EvmByte(i, x) ==
  IF i >= WordBytes THEN 0
  ELSE (x \div Pow2(ByteBits * (WordBytes - 1 - i))) % Pow2(ByteBits)

EvmSar(s, x) ==
  IF s >= WordBits
    THEN (IF EvmSigned(x) < 0 THEN U256_MAX ELSE 0)
    ELSE (EvmSigned(x) \div Pow2(s)) % EvmModulus

Bool01(b) == IF b THEN 1 ELSE 0

\* the value the EVM leaves on the stack for opcode name applied to v
Evm(name, v) ==
  CASE name = "add" -> (v[1] + v[2]) % EvmModulus
    [] name = "sub" -> (v[1] - v[2]) % EvmModulus
    [] name = "mul" -> (v[1] * v[2]) % EvmModulus
    [] name = "div" -> IF v[2] = 0 THEN 0 ELSE v[1] \div v[2]
    [] name = "sdiv" ->
         IF v[2] = 0 THEN 0
         ELSE LET a == EvmSigned(v[1])
                  b == EvmSigned(v[2])
              IN (EvmSign(a) * EvmSign(b) * (Abs(a) \div Abs(b))) % EvmModulus
    [] name = "mod" -> IF v[2] = 0 THEN 0 ELSE v[1] % v[2]
    [] name = "smod" ->
         IF v[2] = 0 THEN 0
         ELSE LET a == EvmSigned(v[1])
                  b == EvmSigned(v[2])
              IN (EvmSign(a) * (Abs(a) % Abs(b))) % EvmModulus
    [] name = "exp" -> EvmExp(v[1], v[2])
    [] name = "addmod" -> IF v[3] = 0 THEN 0 ELSE (v[1] + v[2]) % v[3]
    [] name = "mulmod" -> IF v[3] = 0 THEN 0 ELSE (v[1] * v[2]) % v[3]
    [] name = "not" -> U256_MAX - v[1]
    [] name = "and" -> EvmBitwise(EvmAndBit, v[1], v[2], WordBits - 1)
    [] name = "or" -> EvmBitwise(EvmOrBit, v[1], v[2], WordBits - 1)
    [] name = "xor" -> EvmBitwise(EvmXorBit, v[1], v[2], WordBits - 1)
    [] name = "shl" ->
         IF v[1] >= WordBits THEN 0 ELSE (v[2] * Pow2(v[1])) % EvmModulus
    [] name = "shr" -> IF v[1] >= WordBits THEN 0 ELSE v[2] \div Pow2(v[1])
    [] name = "sar" -> EvmSar(v[1], v[2])
    [] name = "signextend" -> EvmSignextend(v[1], v[2])
    [] name = "byte" -> EvmByte(v[1], v[2])
    [] name = "iszero" -> Bool01(v[1] = 0)
    [] name = "eq" -> Bool01(v[1] = v[2])
    [] name = "lt" -> Bool01(v[1] < v[2])
    [] name = "slt" -> Bool01(EvmSigned(v[1]) < EvmSigned(v[2]))
    [] name = "gt" -> Bool01(v[1] > v[2])
    [] name = "sgt" -> Bool01(EvmSigned(v[1]) > EvmSigned(v[2]))

\* ------------------------------------------------------------------------
\* State.  Each part of the transformer is run on its own: a specification
\* starts one part on its inputs and keeps the variables of the other parts
\* at their idle values.
\* ------------------------------------------------------------------------

\* the folder: the call handed to tryFold and what it returned
VARIABLES foldName, foldArgs, foldResult, foldPc

\* structs: the StructDefinition node, the Struct built from it, the
\* rewrite applied last and the node it returned
VARIABLES structNode, struct, structOp, structOut

\* the transformer on statements: the parsed input, the options given to
\* the constructor, Transformer.object, the
\* depends map of the root scope followed by those of the code blocks in
\* the order of their creation, and the transformed output
VARIABLES root, options, object, depends, output, transformPc

\* the statements of one code block, rewritten one at a time: the
\* statements rewritten so far, scope.methods in insertion order, the names
\* and signatures of the contract in the ABI, the depends map of the code
\* block, the node each statement was rewritten to, and the message of the
\* Error that stopped the rewrite
VARIABLES codeBody, methods, abi, codeDepends, codeOut, codePc, codeError

foldVars == <<foldName, foldArgs, foldResult, foldPc>>

structVars == <<structNode, struct, structOp, structOut>>

transformVars == <<root, options, object, depends, output, transformPc>>

\* the body of one method: scope.calldata, the node rewritten in the body
\* and what it was rewritten to
VARIABLES calldata, cdNode, cdOut, cdPc

calldataVars == <<calldata, cdNode, cdOut, cdPc>>

\* scopes: the kinds of symbol the blocks declare, the scopes from
\* the root to the current one, and the operation done last with its kind,
\* name, result and the place in the chain of the scope it changed
VARIABLES scopeKinds, scopes, scopeOp, scopePc

scopeVars == <<scopeKinds, scopes, scopeOp, scopePc>>

\* the ABI of the contracts: ABI.contracts, the last call of ABI.init or
\* ABI.add with the contracts before it, and the position
VARIABLES contracts, abiOp, abiBefore, abiPc

abiVars == <<contracts, abiOp, abiBefore, abiPc>>

\* NoInline and FunctionConstant: the arguments, the local variables needs,
\* size and body, the function returned, and the position
VARIABLES padInput, padNeeds, padSize, padBody, padOut, padPc

padVars == <<padInput, padNeeds, padSize, padBody, padOut, padPc>>

\* stripComments: the input, the index i, the state, the output with the
\* index in the input of each of its characters, and the position
VARIABLES stripInput, stripIndex, stripState, stripOutput, stripFrom, stripPc

stripVars ==
  <<stripInput, stripIndex, stripState, stripOutput, stripFrom, stripPc>>

\* Parser.NumberLiteral: the text matched, the node returned, the message
\* of the SyntaxError thrown, and the position
VARIABLES numberText, numberNode, numberError, numberPc

numberVars == <<numberText, numberNode, numberError, numberPc>>

\* pretty: the prefix, the parameters as strings, the string returned, and
\* the position
VARIABLES prettyPrefix, prettyParams, prettyOut, prettyPc

prettyVars == <<prettyPrefix, prettyParams, prettyOut, prettyPc>>

\* parse, serialize and parse again: the tokens of the source text, the first
\* AST, the tokens of its serialization, the second AST, and the position
VARIABLES sourceText, firstAst, serialized, secondAst, roundPc

roundVars == <<sourceText, firstAst, serialized, secondAst, roundPc>>

\* the calls of a contract with locked methods: the EVM version the code was
\* built for, the methods of the contract, the mutex slot in storage and in
\* transient storage, the frames of the nested calls (the innermost last) and
\* how the last call ended
VARIABLES mutexVersion, mutexMethods, mutexState, mutexStack, mutexEnded

mutexVars == <<mutexVersion, mutexMethods, mutexState, mutexStack, mutexEnded>>

\* wrapped constants in the blocks of one code block: the statements of the
\* code block in the order the rewrite visits them, the statement it is at,
\* the scopes from the root to the current one, the node each use was
\* rewritten to with the helper dependsOn found for it, the functions
\* generated at the end of the code block, and the position
VARIABLES wrapInput, wrapAt, wrapChain, wrapOut, wrapHelpers, wrapPc

wrapVars == <<wrapInput, wrapAt, wrapChain, wrapOut, wrapHelpers, wrapPc>>

\* the end of a code block: the statements of its body, the keys of
\* scope.depends in insertion order, the number of entries generate has
\* visited, the nodes of the emitted block, and the position
VARIABLES genBody, genDepends, genIndex, genNodes, genPc

genVars == <<genBody, genDepends, genIndex, genNodes, genPc>>

\* do .. while: the DoWhile node, the for loop it is rewritten to, the
\* values of the variables while the loop runs, the statement of the body
\* it is at, the last two things it did (a run of the body, an evaluation of
\* the test with its outcome), and the position
VARIABLES loopInput, loopNode, loopEnv, loopAt, loopEvents, loopPc

loopVars == <<loopInput, loopNode, loopEnv, loopAt, loopEvents, loopPc>>

codeVars ==
  <<codeBody, methods, abi, codeDepends, codeOut, codePc, codeError>>

vars ==
  <<foldVars, structVars, transformVars, codeVars, calldataVars, scopeVars,
    abiVars, padVars, stripVars, numberVars,
    prettyVars,
    roundVars,
    mutexVars,
    wrapVars,
    genVars,
    loopVars>>

NoStruct == [ok |-> FALSE, error |-> "undefined"]

NoOp == [op |-> "none", member |-> 0, or |-> FALSE, args |-> <<>>]

FoldIdle ==
  /\ foldName = ""
  /\ foldArgs = <<>>
  /\ foldResult = Null
  /\ foldPc = "idle"

StructIdle ==
  /\ structNode = <<>>
  /\ struct = NoStruct
  /\ structOp = NoOp
  /\ structOut = Null

TransformIdle ==
  /\ root = Null
  /\ options = Null
  /\ object = -1
  /\ depends = <<>>
  /\ output = Null
  /\ transformPc = "idle"

NoAbi == [items |-> {}, names |-> {}, signatures |-> {}]

CodeIdle ==
  /\ codeBody = <<>>
  /\ methods = <<>>
  /\ abi = NoAbi
  /\ codeDepends = <<>>
  /\ codeOut = <<>>
  /\ codePc = "idle"
  /\ codeError = ""

CalldataIdle ==
  /\ calldata = [type |-> "none"]
  /\ cdNode = Null
  /\ cdOut = Null
  /\ cdPc = "idle"

ScopeIdle ==
  /\ scopeKinds = {}
  /\ scopes = <<>>
  /\ scopeOp = Null
  /\ scopePc = "idle"

AbiIdle ==
  /\ contracts = <<>>
  /\ abiOp = Null
  /\ abiBefore = <<>>
  /\ abiPc = "idle"

PadIdle ==
  /\ padInput = Null
  /\ padNeeds = 0
  /\ padSize = 0
  /\ padBody = <<>>
  /\ padOut = Null
  /\ padPc = "idle"

StripIdle ==
  /\ stripInput = <<>>
  /\ stripIndex = 0
  /\ stripState = 0
  /\ stripOutput = <<>>
  /\ stripFrom = <<>>
  /\ stripPc = "idle"

NumberIdle ==
  /\ numberText = Null
  /\ numberNode = Null
  /\ numberError = ""
  /\ numberPc = "idle"

PrettyIdle ==
  /\ prettyPrefix = <<>>
  /\ prettyParams = <<>>
  /\ prettyOut = <<>>
  /\ prettyPc = "idle"

RoundIdle ==
  /\ sourceText = <<>>
  /\ firstAst = Null
  /\ serialized = <<>>
  /\ secondAst = Null
  /\ roundPc = "idle"

MutexIdle ==
  /\ mutexVersion = 0
  /\ mutexMethods = <<>>
  /\ mutexState = [storage |-> 0, transient |-> 0]
  /\ mutexStack = <<>>
  /\ mutexEnded = [name |-> "", how |-> "idle"]

WrapIdle ==
  /\ wrapInput = <<>>
  /\ wrapAt = 0
  /\ wrapChain = <<>>
  /\ wrapOut = <<>>
  /\ wrapHelpers = {}
  /\ wrapPc = "idle"

GenIdle ==
  /\ genBody = <<>>
  /\ genDepends = <<>>
  /\ genIndex = 0
  /\ genNodes = <<>>
  /\ genPc = "idle"

LoopIdle ==
  /\ loopInput = Null
  /\ loopNode = Null
  /\ loopEnv = [x |-> 0, ok |-> 0]
  /\ loopAt = 0
  /\ loopEvents = <<"idle", "idle">>
  /\ loopPc = "idle"

\* every part but the named one is idle
OthersIdle(part) ==
  /\ IF part = "fold" THEN TRUE ELSE FoldIdle
  /\ IF part = "struct" THEN TRUE ELSE StructIdle
  /\ IF part = "transform" THEN TRUE ELSE TransformIdle
  /\ IF part = "code" THEN TRUE ELSE CodeIdle
  /\ IF part = "calldata" THEN TRUE ELSE CalldataIdle
  /\ IF part = "scope" THEN TRUE ELSE ScopeIdle
  /\ IF part = "abi" THEN TRUE ELSE AbiIdle
  /\ IF part = "pad" THEN TRUE ELSE PadIdle
  /\ IF part = "strip" THEN TRUE ELSE StripIdle
  /\ IF part = "number" THEN TRUE ELSE NumberIdle
  /\ IF part = "pretty" THEN TRUE ELSE PrettyIdle
  /\ IF part = "round" THEN TRUE ELSE RoundIdle
  /\ IF part = "mutex" THEN TRUE ELSE MutexIdle
  /\ IF part = "wrap" THEN TRUE ELSE WrapIdle
  /\ IF part = "gen" THEN TRUE ELSE GenIdle
  /\ IF part = "loop" THEN TRUE ELSE LoopIdle

\* every part but the named one keeps its variables
OthersUnchanged(part) ==
  /\ IF part = "fold" THEN TRUE ELSE UNCHANGED foldVars
  /\ IF part = "struct" THEN TRUE ELSE UNCHANGED structVars
  /\ IF part = "transform" THEN TRUE ELSE UNCHANGED transformVars
  /\ IF part = "code" THEN TRUE ELSE UNCHANGED codeVars
  /\ IF part = "calldata" THEN TRUE ELSE UNCHANGED calldataVars
  /\ IF part = "scope" THEN TRUE ELSE UNCHANGED scopeVars
  /\ IF part = "abi" THEN TRUE ELSE UNCHANGED abiVars
  /\ IF part = "pad" THEN TRUE ELSE UNCHANGED padVars
  /\ IF part = "strip" THEN TRUE ELSE UNCHANGED stripVars
  /\ IF part = "number" THEN TRUE ELSE UNCHANGED numberVars
  /\ IF part = "pretty" THEN TRUE ELSE UNCHANGED prettyVars
  /\ IF part = "round" THEN TRUE ELSE UNCHANGED roundVars
  /\ IF part = "mutex" THEN TRUE ELSE UNCHANGED mutexVars
  /\ IF part = "wrap" THEN TRUE ELSE UNCHANGED wrapVars
  /\ IF part = "gen" THEN TRUE ELSE UNCHANGED genVars
  /\ IF part = "loop" THEN TRUE ELSE UNCHANGED loopVars

\* ------------------------------------------------------------------------
\* The folder applied to literal arguments
\* ------------------------------------------------------------------------

UnaryOps == {"not", "iszero"}

BinaryOps ==
  {"add", "sub", "mul", "div", "sdiv", "mod", "smod", "exp", "and", "or",
   "xor", "shl", "shr", "sar", "signextend", "byte", "eq", "lt", "slt",
   "gt", "sgt"}

TernaryOps == {"addmod", "mulmod"}

FoldOps == UnaryOps \cup BinaryOps \cup TernaryOps

Arity(name) ==
  IF name \in UnaryOps THEN 1 ELSE IF name \in BinaryOps THEN 2 ELSE 3

\* the words next to 0, to a power of two and to the largest word
Operands ==
  {v \in Words :
     \/ v <= 1
     \/ v >= U256_MAX - 1
     \/ \E k \in 1 .. WordBits - 1 : Abs(v - Pow2(k)) <= 1}

\* the literals the parser can hand over for the value v
LiteralsOf(v) ==
  {DecimalNumber(ToDigits(v, 10)), HexNumber(ToDigits(v, 16))}
    \cup (IF v <= 1 THEN {BoolLiteral(v)} ELSE {})

OperandLiterals == UNION {LiteralsOf(v) : v \in Operands}

\* the extreme words, written in decimal, for the third operand
ModulusLiterals ==
  {DecimalNumber(ToDigits(v, 10)) :
     v \in {0, 1, 2, I256_SIGN - 1, I256_SIGN, U256_MAX - 1, U256_MAX}}

ArgLists(name) ==
  CASE Arity(name) = 1 -> {<<a>> : a \in OperandLiterals}
    [] Arity(name) = 2 ->
         {<<a, b>> : a \in OperandLiterals, b \in OperandLiterals}
    [] OTHER ->
         {<<DecimalNumber(ToDigits(x, 10)), DecimalNumber(ToDigits(y, 10)), m>> :
            x \in Operands, y \in Operands, m \in ModulusLiterals}

FoldInit ==
  /\ foldName \in FoldOps
  /\ foldArgs \in ArgLists(foldName)
  /\ foldResult = Null
  /\ foldPc = "call"
  /\ OthersIdle("fold")

\* tryFold on FunctionCall(foldName, foldArgs)
Fold ==
  /\ foldPc = "call"
  /\ foldResult' = fold(foldName, foldArgs)
  /\ foldPc' = "done"
  /\ UNCHANGED <<foldName, foldArgs>>
  /\ OthersUnchanged("fold")

ArgValues(args) == [i \in 1 .. Len(args) |-> toBigInt(args[i])]

And(x, y) == Call("and", <<x, y>>)

Or(x, y) == Call("or", <<x, y>>)

Shl(shift, num) == Call("shl", <<LiteralNumber(shift), num>>)

Shr(shift, num) == Call("shr", <<LiteralNumber(shift), num>>)

Byte(pos, num) == Call("byte", <<LiteralNumber(pos), num>>)

\* Assign(ident, expr); ident is the name of the assigned variable
Assign(ident, expr) ==
  [type |-> "Assignment", subtype |-> ident, value |-> <<>>, args |-> <<expr>>]

isDefaultIdentifier(node) == node.type = "Identifier" /\ node.subtype = "@"

\* a << BigInt(n): a negative count shifts right
JsShlSigned(a, n) == IF n >= 0 THEN JsShl(a, n) ELSE JsShr(a, -n)

\* the member types of the model: uintN, intN, bool, bytesN (address and
\* function are wider than the scaled word)
TypeWidth(kind) ==
  CASE kind.base \in {"uint", "int"} -> kind.size
    [] kind.base = "bool" -> 1
    [] kind.base = "bytes" -> kind.size * ByteBits

\* StructMember with the members packed from the low end of the word
StructMemberLowFirst(name, offset, width, value) ==
  LET mask == JsShl(1, width) - 1
  IN [name |-> name,
      offset |-> offset,
      width |-> width,
      value |-> JsAnd(toBigInt(value), mask),
      shift |-> offset,
      mask |-> Literal(mask),
      imask |-> Literal(BitXor(JsShlSigned(mask, offset), U256_MAX)),
      mod |-> mask]

\* new StructMember(name, offset, width, value); value is the literal node
\* of the default
StructMember(name, offset, width, value) ==
  LET shift == WordBits - (offset + width)
      mask == JsShl(1, width) - 1
      imask == BitXor(JsShlSigned(mask, shift), U256_MAX)
  IN [name |-> name,
      offset |-> offset,
      width |-> width,
      value |-> JsAnd(toBigInt(value), mask),
      shift |-> shift,
      mask |-> Literal(mask),
      imask |-> Literal(imask),
      mod |-> mask]

StructError(msg) == [ok |-> FALSE, error |-> msg]

\* the loop of Struct.init from member i on
RECURSIVE StructInitLoop(_, _, _, _, _)
StructInitLoop(node, i, offset, n, members) ==
  IF i > Len(node)
    THEN IF offset = 0 \/ offset > WordBits
           THEN StructError("Invalid struct size")
           ELSE [ok |-> TRUE, members |-> members, value |-> Literal(n),
                 width |-> offset]
  ELSE LET member == node[i]
           width == TypeWidth(member.kind)
       IN IF member.name = "+"
            THEN StructInitLoop(node, i + 1, offset + width, n, members)
          ELSE IF \E j \in 1 .. Len(members) : members[j].name = member.name
            THEN StructError("Duplicate struct member name")
          ELSE IF ~isLiteral(member.value)
            THEN StructError("Default value must be a literal")
          ELSE LET mem == StructMember(member.name, offset, width, member.value)
               IN StructInitLoop(node, i + 1, offset + width,
                                 BitOr(n, JsShlSigned(mem.value, mem.shift)),
                                 Append(members, mem))

\* new Struct(node): node is the sequence of StructMember nodes
StructInit(node) == StructInitLoop(node, 1, 0, 0, <<>>)

\* accumulate with the shift of the member forgotten
StructMemberAccumulateNoShift(mem, acc, value) ==
  IF isZero(acc) THEN value ELSE Or(acc, value)

StructMemberAccumulate(mem, acc, value) ==
  IF isZero(acc)
    THEN IF mem.shift = 0 THEN value ELSE Shl(mem.shift, value)
  ELSE IF mem.shift = 0 THEN Or(acc, value)
  ELSE Or(acc, Shl(mem.shift, value))

\* the first loop of Struct.fold: the literal part n
RECURSIVE StructFoldLiterals(_, _, _)
StructFoldLiterals(self, args, i) ==
  IF i = 0 THEN 0
  ELSE LET mem == self.members[i]
           rest == StructFoldLiterals(self, args, i - 1)
       IN IF i > Len(args) \/ isDefaultIdentifier(args[i])
            THEN BitOr(rest, JsShl(mem.value, mem.shift))
          ELSE IF isLiteral(args[i])
            THEN BitOr(rest, JsShl(JsAnd(toBigInt(args[i]), mem.mod), mem.shift))
          ELSE rest

\* the last loop of Struct.fold: the stacked non-literal arguments up to i
RECURSIVE StructFoldStack(_, _, _, _)
StructFoldStack(self, args, i, expr) ==
  IF i = 0 THEN expr
  ELSE LET acc == StructFoldStack(self, args, i - 1, expr)
       IN IF isDefaultIdentifier(args[i]) \/ isLiteral(args[i]) THEN acc
          ELSE StructMemberAccumulate(self.members[i], acc, args[i])

StructFold(self, args) ==
  IF Len(args) = 0 THEN self.value
  ELSE IF Len(args) > Len(self.members)
    THEN StructError("Too many arguments passed to struct")
  ELSE StructFoldStack(self, args, Len(args),
         Literal(StructFoldLiterals(self, args, Len(self.members))))

\* read with the mask of the general case forgotten
StructMemberReadNoMask(mem, name) ==
  IF mem.shift = 0 THEN And(name, mem.mask)
  ELSE IF mem.width = ByteBits /\ mem.offset % ByteBits = 0
    THEN Byte(mem.offset \div ByteBits, name)
  ELSE Shr(mem.shift, name)

StructMemberRead(mem, name) ==
  IF mem.shift = 0 THEN And(name, mem.mask)
  ELSE IF mem.offset = 0 THEN Shr(mem.shift, name)
  ELSE IF mem.width = ByteBits /\ mem.offset % ByteBits = 0
    THEN Byte(mem.offset \div ByteBits, name)
  ELSE And(Shr(mem.shift, name), mem.mask)

StructMemberPut(mem, name, value) ==
  IF isLiteral(value)
    THEN LET num == toBigInt(value)
         IN IF num = 0 THEN Null
            ELSE Assign(name.subtype,
                        Or(name, Literal(ShlWord(num % EvmModulus, mem.shift))))
  ELSE IF mem.shift = 0 THEN Assign(name.subtype, Or(name, value))
  ELSE Assign(name.subtype, Or(name, Shl(mem.shift, value)))

StructMemberWrite(mem, name, value) ==
  IF isLiteral(value)
    THEN LET num == toBigInt(value)
             lit == Literal(ShlWord(num % EvmModulus, mem.shift))
         IN IF num = 0 THEN Assign(name.subtype, And(name, mem.imask))
            ELSE IF num = mem.mod THEN Assign(name.subtype, Or(name, lit))
            ELSE Assign(name.subtype, Or(And(name, mem.imask), lit))
  ELSE IF mem.shift = 0
    THEN Assign(name.subtype, Or(And(name, mem.imask), value))
  ELSE Assign(name.subtype, Or(And(name, mem.imask), Shl(mem.shift, value)))

\* ------------------------------------------------------------------------
\* Running emitted code: the value of an expression and the effect of a
\* statement on the variables (env maps a variable's name to its word)
\* ------------------------------------------------------------------------

RECURSIVE Eval(_, _)
Eval(node, env) ==
  CASE node.type = "Literal" -> toBigInt(node)
    [] node.type = "Identifier" -> env[node.subtype]
    [] node.type = "FunctionCall" ->
         Evm(node.subtype, [i \in 1 .. Len(node.args) |-> Eval(node.args[i], env)])

Exec(stmt, env) ==
  IF stmt.type = "Assignment"
    THEN [env EXCEPT ![stmt.subtype] = Eval(stmt.args[1], env)]
    ELSE env

\* ------------------------------------------------------------------------
\* The transformer's rewrites of struct definitions, initializers, member
\* reads and member writes
\* ------------------------------------------------------------------------

\* members (padding included) of a struct definition
MaxMembers == 3

MemberNames == <<"a", "b", "c", "d">>

Kinds ==
  {[base |-> "bool", size |-> 0],
   [base |-> "bytes", size |-> 1],
   [base |-> "uint", size |-> 0],
   [base |-> "int", size |-> ByteBits + 1],
   [base |-> "uint", size |-> WordBits],
   [base |-> "uint", size |-> WordBits + 1]}

\* a default that is absent (the parser's Literal(0)) or wider than any member
DefaultLiterals == {LiteralNumber(0), HexNumber(ToDigits(U256_MAX, 16))}

\* the choices for one StructMember node: padding, or a named member
MemberChoices ==
  {[kind |-> k, pad |-> TRUE, value |-> LiteralNumber(0)] : k \in Kinds}
    \cup {[kind |-> k, pad |-> FALSE, value |-> v] :
            k \in Kinds, v \in DefaultLiterals}

StructNodes ==
  UNION {{[i \in 1 .. n |->
             [kind |-> f[i].kind,
              name |-> IF f[i].pad THEN "+" ELSE MemberNames[i],
              value |-> f[i].value]] : f \in [1 .. n -> MemberChoices]} :
         n \in 1 .. MaxMembers}

\* the variable holding the struct, and the variables of runtime arguments
StructVar == Identifier("s")

RuntimeArgs == {Identifier("x"), Identifier("y")}

\* literal right-hand sides and arguments: zero, one, a full byte, more than
\* a byte, the largest word
ValueLiterals ==
  {LiteralNumber(0), LiteralNumber(1), Literal(ByteMask), Literal(ByteMask + 2),
   HexNumber(ToDigits(U256_MAX, 16))}

\* the choices for one argument of an initializer
InitializerArgs ==
  {Identifier("@"), LiteralNumber(1), HexNumber(ToDigits(U256_MAX, 16)),
   Identifier("x")}

ArgSeqs(n) == UNION {[1 .. k -> InitializerArgs] : k \in 0 .. n}

StructSpecInit ==
  /\ structNode \in StructNodes
  /\ struct = NoStruct
  /\ structOp = NoOp
  /\ structOut = Null
  /\ OthersIdle("struct")

\* rewrite case 'StructDefinition': new Struct(node), scope.addStruct
StructDefinition ==
  /\ structOp.op = "none"
  /\ struct' = StructInit(structNode)
  /\ structOp' = [NoOp EXCEPT !.op = "define"]
  /\ UNCHANGED <<structNode, structOut>>
  /\ OthersUnchanged("struct")

\* rewrite case 'StructInitializer': struct.fold(args)
StructInitializer ==
  /\ struct.ok
  /\ structOp.op = "define"
  /\ \E args \in ArgSeqs(Len(struct.members) + 1) :
       /\ structOut' = StructFold(struct, args)
       /\ structOp' = [NoOp EXCEPT !.op = "init", !.args = args]
  /\ UNCHANGED <<structNode, struct>>
  /\ OthersUnchanged("struct")

\* rewrite case 'MemberIdentifier': mem.read(id.name)
MemberIdentifier ==
  /\ struct.ok
  /\ structOp.op = "define"
  /\ \E i \in 1 .. Len(struct.members) :
       /\ structOut' = StructMemberRead(struct.members[i], StructVar)
       /\ structOp' = [NoOp EXCEPT !.op = "read", !.member = i]
  /\ UNCHANGED <<structNode, struct>>
  /\ OthersUnchanged("struct")

\* rewrite case 'MemberAssignment': mem.put or mem.write
MemberAssignment ==
  /\ struct.ok
  /\ structOp.op = "define"
  /\ \E i \in 1 .. Len(struct.members), or \in BOOLEAN,
        rhs \in ValueLiterals \cup RuntimeArgs :
       /\ structOut' =
            IF or THEN StructMemberPut(struct.members[i], StructVar, rhs)
            ELSE StructMemberWrite(struct.members[i], StructVar, rhs)
       /\ structOp' =
            [op |-> "assign", member |-> i, or |-> or, args |-> <<rhs>>]
  /\ UNCHANGED <<structNode, struct>>
  /\ OthersUnchanged("struct")

StructNext ==
  \/ StructDefinition
  \/ StructInitializer
  \/ MemberIdentifier
  \/ MemberAssignment

\* ------------------------------------------------------------------------
\* Properties of the struct rewrites
\* ------------------------------------------------------------------------

\* the sum of the declared widths of the member nodes before node j
RECURSIVE WidthBefore(_, _)
WidthBefore(node, j) ==
  IF j <= 1 THEN 0
  ELSE WidthBefore(node, j - 1) + TypeWidth(node[j - 1].kind)

\* the positions of the member nodes that are no padding
NamedNodes(node) ==
  SelectSeq([j \in 1 .. Len(node) |-> j], LAMBDA j : node[j].name # "+")

\* the bits of member mem in the word w
Field(mem, w) == (w \div Pow2(mem.shift)) % Pow2(mem.width)

\* C8: in every accepted struct the members lie in declaration order on
\* consecutive, pairwise disjoint bit ranges from the most significant bit
\* down (padding takes width and makes no member): a member's offset is the
\* sum of the widths declared before it, its shift is WordBits - offset -
\* width and is not negative, the total width is in (0, WordBits]; a
\* definition whose total width is 0 or more than WordBits is rejected.
StructLayout ==
  structOp.op # "none" =>
    LET named == NamedNodes(structNode)
        total == WidthBefore(structNode, Len(structNode) + 1)
    IN /\ (total = 0 \/ total > WordBits) => ~struct.ok
       /\ struct.ok =>
            /\ 0 < total /\ total <= WordBits
            /\ struct.width = total
            /\ Len(struct.members) = Len(named)
            /\ \A i \in 1 .. Len(named) :
                 LET mem == struct.members[i]
                     j == named[i]
                 IN /\ mem.name = structNode[j].name
                    /\ mem.width = TypeWidth(structNode[j].kind)
                    /\ mem.offset = WidthBefore(structNode, j)
                    /\ mem.shift = WordBits - mem.offset - mem.width
                    /\ mem.shift >= 0
            /\ \A i, k \in 1 .. Len(named) :
                 i < k =>
                   struct.members[i].shift >=
                     struct.members[k].shift + struct.members[k].width

\* an accepted struct of two members with padding between them
StructLayoutWitness ==
  /\ structOp.op = "define"
  /\ struct.ok
  /\ Len(structNode) = 3
  /\ structNode[2].name = "+"
  /\ TypeWidth(structNode[2].kind) > 0
  /\ Len(struct.members) = 2
  /\ struct.members[2].offset >
       struct.members[1].offset + struct.members[1].width

\* the shape of the expression of a member read
ReadShape(node) ==
  CASE isCall(node, "and", 2) /\ node.args[1] = StructVar -> "mask"
    [] isCall(node, "shr", 2) /\ node.args[2] = StructVar -> "shift"
    [] isCall(node, "byte", 2) /\ node.args[2] = StructVar -> "byte"
    [] isCall(node, "and", 2) /\ isCall(node.args[1], "shr", 2) -> "shift-mask"
    [] OTHER -> "other"

\* C9: the expression of a member read evaluates, for every word w held by
\* the variable, to (w >> shift) & (2^width - 1); it is a mask only if the
\* member ends at the low end of the word, a shift only if it starts at the
\* high end, a byte() only if the member is one byte wide and byte aligned,
\* and a shift followed by a mask in every other case.
MemberReadSound ==
  structOp.op = "read" =>
    LET mem == struct.members[structOp.member]
        shape == ReadShape(structOut)
        aligned == mem.width = ByteBits /\ mem.offset % ByteBits = 0
    IN /\ \A w \in Words :
            Eval(structOut, [s |-> w]) = Field(mem, w)
       /\ shape \in {"mask", "shift", "byte", "shift-mask"}
       /\ shape = "mask" => mem.shift = 0
       /\ shape = "shift" => mem.offset = 0
       /\ shape = "byte" =>
            /\ aligned
            /\ structOut.args[1] = LiteralNumber(mem.offset \div ByteBits)
       /\ shape = "shift-mask" <=>
            (mem.shift # 0 /\ mem.offset # 0 /\ ~aligned)

\* a read of a byte-aligned one-byte member in the middle of the word
MemberReadWitness ==
  /\ structOp.op = "read"
  /\ ReadShape(structOut) = "byte"
  /\ struct.members[structOp.member].offset > 0
  /\ struct.members[structOp.member].shift > 0

\* the declared default of member i of the struct: the literal written in
\* its definition
DeclaredDefault(i) == toBigInt(structNode[NamedNodes(structNode)[i]].value)

\* the word packed from the arguments of the initializer for members 1 .. i,
\* x being the value of the runtime argument: a default or a literal is
\* taken modulo 2^width; a runtime argument is taken modulo 2^width when
\* masked, and shifted as it is (within the word) when not
RECURSIVE PackedWord(_, _, _)
PackedWord(i, x, masked) ==
  IF i = 0 THEN 0
  ELSE LET mem == struct.members[i]
           args == structOp.args
           part ==
             IF i > Len(args) \/ isDefaultIdentifier(args[i])
               THEN (DeclaredDefault(i) % Pow2(mem.width)) * Pow2(mem.shift)
             ELSE IF isLiteral(args[i])
               THEN (toBigInt(args[i]) % Pow2(mem.width)) * Pow2(mem.shift)
             ELSE IF masked
               THEN (x % Pow2(mem.width)) * Pow2(mem.shift)
             ELSE (x * Pow2(mem.shift)) % EvmModulus
       IN BitOr(PackedWord(i - 1, x, masked), part)

\* what an initializer gives, the runtime arguments being masked or not
StructInitializerGives(masked) ==
  LET args == structOp.args
      n == Len(struct.members)
  IN IF Len(args) > n
       THEN structOut = StructError("Too many arguments passed to struct")
     ELSE /\ \A x \in Operands :
               Eval(structOut, [x |-> x]) = PackedWord(n, x, masked)
          /\ (\A i \in 1 .. Len(args) : isDefaultIdentifier(args[i]))
               => structOut = struct.value
          /\ (\A i \in 1 .. Len(args) :
                isDefaultIdentifier(args[i]) \/ isLiteral(args[i]))
               => isLiteral(structOut)

\* C7 as stated: an initializer evaluates to the OR over the members of
\* (v mod 2^width) << shift, v being the argument, or the declared default
\* for `@` and for an omitted tail; no arguments or only `@` give the packed
\* default constant, literal arguments give a single literal, and more
\* arguments than members are an error.
StructInitializerMasked ==
  structOp.op = "init" => StructInitializerGives(TRUE)

\* C7, amended: as above for defaults and literal arguments; a runtime
\* argument is not reduced modulo 2^width: it is shifted left by the
\* member's shift within the word and ORed in as it is.
StructInitializerPacked ==
  structOp.op = "init" => StructInitializerGives(FALSE)

\* an initializer of a three-member struct with a default, a literal wider
\* than its member and a runtime argument
StructInitializerWitness ==
  /\ structOp.op = "init"
  /\ Len(struct.members) = 3
  /\ Len(structOp.args) = 3
  /\ isDefaultIdentifier(structOp.args[1])
  /\ isLiteral(structOp.args[2])
  /\ toBigInt(structOp.args[2]) >= Pow2(struct.members[2].width)
  /\ structOp.args[3] = Identifier("x")
  /\ struct.members[3].width > 0
  /\ struct.members[3].width < WordBits
  /\ structOut.type = "FunctionCall"

\* the emitted assignment, run on every prior word, leaves member m reading
\* v mod 2^width (`:=`) or its old bits ORed with v mod 2^width (`|=`), and
\* every other member reading what it read before
WriteKeepsFrame ==
  LET mem == struct.members[structOp.member]
      v == toBigInt(structOp.args[1]) % Pow2(mem.width)
  IN \A w \in Words :
       LET after == Exec(structOut, [s |-> w]).s
       IN /\ Field(mem, after) =
               IF structOp.or THEN BitOr(Field(mem, w), v) ELSE v
          /\ \A k \in 1 .. Len(struct.members) :
               k # structOp.member =>
                 Field(struct.members[k], after) = Field(struct.members[k], w)

\* C10 as stated: the assignment emitted for `name->m := v` with a literal v
\* replaces only the bits of m, for every prior word, also when v does not
\* fit the member's width; `name->m |= v` only ORs bits into m.
MemberWriteFrame ==
  (structOp.op = "assign" /\ isLiteral(structOp.args[1])) => WriteKeepsFrame

\* the frame holds for the literals that fit the member's width
MemberWriteFrameFits ==
  (/\ structOp.op = "assign"
   /\ isLiteral(structOp.args[1])
   /\ toBigInt(structOp.args[1]) <
        Pow2(struct.members[structOp.member].width)) => WriteKeepsFrame

\* a literal wider than the member written below another member of non-zero
\* width
MemberWriteWitness ==
  /\ structOp.op = "assign"
  /\ ~structOp.or
  /\ structOp.member = 2
  /\ struct.members[1].width > 0
  /\ struct.members[2].width > 0
  /\ isLiteral(structOp.args[1])
  /\ toBigInt(structOp.args[1]) >= Pow2(struct.members[2].width)

\* ------------------------------------------------------------------------
\* The transformer on statements: Root, Block, ObjectBlock, CodeBlock,
\* FunctionDefinition, @if (Fold), include, calls.  rewrite returns the
\* rewritten node and the transformer's state after it: st.object is
\* Transformer.object, st.depends[i] the names in the depends map of scope i
\* in insertion order (scope 1 is the root, the others are the code blocks),
\* st.error the message of a thrown Error ("" while none is thrown).  A scope
\* is [parent, depth, node, code, self]: whether it has a parent, its depth,
\* the type of its node, the scope findCodeScope() returns and the scope's own place in
\* st.depends (0 for a scope that is neither the root nor a code block: its
\* depends map stays empty).
\* ------------------------------------------------------------------------

Root(nodes) == [type |-> "Root", nodes |-> nodes]

Block(body) == [type |-> "Block", body |-> body]

ObjectBlock(block) == [type |-> "ObjectBlock", block |-> block]

CodeBlock(block) == [type |-> "CodeBlock", block |-> block]

FunctionDefinition(name, block, builtin) ==
  [type |-> "FunctionDefinition", name |-> name, block |-> block,
   builtin |-> builtin]

\* Parser.Fold: otherwise is Null when there is no else
FoldNode(expr, block, branches, otherwise) ==
  [type |-> "Fold", expr |-> expr, block |-> block, branches |-> branches,
   otherwise |-> otherwise]

\* Parser.IncludeCall, with the Root that parse() makes of the included file
IncludeCall(parsed) == [type |-> "IncludeCall", parsed |-> parsed]

\* scope.funcs of the root scope: helper functions of the support code,
\* one of which calls another, those of the builtins that the dispatcher
\* depends on, and two functions of a library read by Builtins.init that
\* call each other
funcs ==
  [name \in {"__panic", "__hash256_1", "__hash256_3",
             "__mutex_key", "__mutex_lock", "__mutex_unlock",
             "__check_int", "__check_calldata_array",
             "__even", "__odd"} |->
     FunctionDefinition(name,
       Block(IF name = "__hash256_1"
               THEN <<Call("__hash256_3",
                           <<LiteralNumber(0), LiteralNumber(0),
                             LiteralNumber(WordBytes)>>)>>
             ELSE IF name = "__even"
               THEN <<Call("pop", <<Call("__odd", <<Identifier("x")>>)>>)>>
             ELSE IF name = "__odd"
               THEN <<Call("pop", <<Call("__even", <<Identifier("x")>>)>>)>>
             ELSE <<Call("revert", <<LiteralNumber(0), LiteralNumber(0)>>)>>),
       TRUE)]

\* the ordinals of the EVM versions
hardforks ==
  [homestead |-> 201603, tangerineWhistle |-> 201610,
   spuriousDragon |-> 201611, byzantium |-> 201710,
   constantinople |-> 201902, petersburg |-> 201903, istanbul |-> 201912,
   berlin |-> 202104, london |-> 202108, paris |-> 202209,
   shanghai |-> 202304, cancun |-> 300000]

\* a Transformer made without options
NewTransformer ==
  [object |-> -1, depends |-> <<<<>>>>, error |-> "", hardfork |-> "london"]

\* the options of the constructor: none, or a hardfork
NoOptions == [type |-> "Null", subtype |-> "", value |-> <<>>]

Options(hardfork) ==
  [type |-> "Options", subtype |-> hardfork, value |-> <<>>]

\* a constructor that takes every version of the table
TransformerAnyVersion(opts) ==
  IF opts = NoOptions THEN NewTransformer
  ELSE IF opts.subtype \notin DOMAIN hardforks
    THEN [NewTransformer EXCEPT !.error = "Unknown EVM version."]
  ELSE [NewTransformer EXCEPT !.hardfork = opts.subtype]

\* new Transformer(root, options): the assertions on the hardfork
Transformer(opts) ==
  IF opts = NoOptions THEN NewTransformer
  ELSE IF opts.subtype \notin DOMAIN hardforks
    THEN [NewTransformer EXCEPT !.error = "Unknown EVM version."]
  ELSE IF ~(hardforks[opts.subtype] < 300000)
    THEN [NewTransformer EXCEPT !.error = "Invalid EVM version."]
  ELSE [NewTransformer EXCEPT !.hardfork = opts.subtype]

RootScope ==
  [parent |-> FALSE, depth |-> 0, node |-> "Root", code |-> 1, self |-> 1]

\* scope.child(node) for a node that is no code block
ChildScope(scope, type) ==
  [parent |-> TRUE, depth |-> scope.depth + 1, node |-> type,
   code |-> scope.code, self |-> 0]

\* scope.child(node) for a CodeBlock: the n-th scope with a depends map
CodeScope(scope, n) ==
  [parent |-> TRUE, depth |-> scope.depth + 1, node |-> "CodeBlock",
   code |-> n, self |-> n]

Throw(st, msg) == [node |-> Null, st |-> [st EXCEPT !.error = msg]]

\* scope.dependsOn(name, true)
dependsOn(name, scope, st) ==
  IF name \notin DOMAIN funcs THEN st
  ELSE IF \E i \in 1 .. Len(st.depends[scope.code]) :
            st.depends[scope.code][i] = name
    THEN st
  ELSE [st EXCEPT !.depends[scope.code] = Append(@, name)]

RECURSIVE filter(_)
filter(nodes) ==
  IF Len(nodes) = 0 THEN <<>>
  ELSE (IF nodes[1].type = "Root" THEN nodes[1].nodes ELSE <<nodes[1]>>)
         \o filter(Tail(nodes))

\* the @if's test of a rewritten condition with the value forgotten
foldTakenAnyLiteral(result) == isLiteral(result)

\* isLiteral(result) && toBigInt(result.value)
foldTaken(result) == isLiteral(result) /\ toBigInt(result) # 0

RECURSIVE rewrite(_, _, _)
RECURSIVE rewriteNodes(_, _, _, _)
RECURSIVE rewriteFold(_, _, _, _, _)
RECURSIVE generate(_, _, _, _)
RECURSIVE block(_, _, _)

\* for (const child of nodes) out.push(this.rewrite(child)), from child i on
rewriteNodes(nodes, i, scope, st) ==
  IF i > Len(nodes) THEN [nodes |-> <<>>, st |-> st]
  ELSE LET r == rewrite(nodes[i], scope, st)
           rest == rewriteNodes(nodes, i + 1, scope, r.st)
       IN [nodes |-> <<r.node>> \o rest.nodes, st |-> rest.st]

\* Transformer.generate on the depends map of scope n, from entry i on: a
\* rewrite of a helper may add entries, which the iteration reaches
generate(n, i, scope, st) ==
  IF i > Len(st.depends[n]) THEN [nodes |-> <<>>, st |-> st]
  ELSE LET node == funcs[st.depends[n][i]]
           r == IF node.builtin THEN rewrite(node, scope, st)
                ELSE [node |-> node, st |-> st]
           rest == generate(n, i + 1, scope, r.st)
       IN [nodes |-> <<r.node>> \o rest.nodes, st |-> rest.st]

\* Transformer.block / _block on the body of a block in its own scope
block(body, scope, st) ==
  LET r == rewriteNodes(body, 1, scope, st)
      g == IF scope.self # 0 /\ Len(r.st.depends[scope.self]) > 0
             THEN generate(scope.self, 1, scope, r.st)
             ELSE [nodes |-> <<>>, st |-> r.st]
  IN [node |-> Block(filter(r.nodes \o g.nodes)), st |-> g.st]

\* the loop of case 'Fold' from branch i on
rewriteFold(branches, i, otherwise, scope, st) ==
  IF i > Len(branches)
    THEN IF otherwise.type # "Null" THEN rewrite(otherwise, scope, st)
         ELSE [node |-> Null, st |-> st]
  ELSE LET r == rewrite(branches[i][1], scope, st)
       IN IF foldTaken(r.node) THEN rewrite(branches[i][2], scope, r.st)
          ELSE rewriteFold(branches, i + 1, otherwise, scope, r.st)

\* Transformer.rewrite
rewrite(node, scope, st) ==
  CASE node.type = "Root" ->
         LET r == rewriteNodes(node.nodes, 1, scope, st)
             g == IF /\ ~scope.parent
                     /\ r.st.object < 0
                     /\ Len(r.st.depends[scope.self]) > 0
                    THEN generate(scope.self, 1, scope, r.st)
                    ELSE [nodes |-> <<>>, st |-> r.st]
         IN [node |-> Root(filter(r.nodes \o g.nodes)), st |-> g.st]
    [] node.type = "Fold" ->
         rewriteFold(<<<<node.expr, node.block>>>> \o node.branches, 1,
                     node.otherwise, scope, st)
    [] node.type = "IncludeCall" -> rewrite(node.parsed, scope, st)
    [] node.type = "ObjectBlock" ->
         IF scope.depth > 0 /\ scope.node # "ObjectBlock"
           THEN Throw(st, "Object must be inside an object block.")
         ELSE IF scope.depth = 0 /\ st.object + 1 # 0
           THEN Throw(st, "Multiple top-level objects.")
         ELSE LET b == block(node.block.body, ChildScope(scope, "ObjectBlock"),
                             IF scope.depth = 0
                               THEN [st EXCEPT !.object = @ + 1] ELSE st)
              IN [node |-> ObjectBlock(b.node), st |-> b.st]
    [] node.type = "CodeBlock" ->
         IF scope.node # "ObjectBlock"
           THEN Throw(st, "Code block must be inside an object block.")
         ELSE LET n == Len(st.depends) + 1
                  b == block(node.block.body, CodeScope(scope, n),
                             [st EXCEPT !.depends = Append(@, <<>>)])
              IN [node |-> CodeBlock(b.node), st |-> b.st]
    [] node.type = "Block" ->
         block(node.body, ChildScope(scope, "Block"), st)
    [] node.type = "FunctionDefinition" ->
         LET b == block(node.block.body,
                        ChildScope(scope, "FunctionDefinition"), st)
         IN [node |-> FunctionDefinition(node.name, b.node, FALSE),
             st |-> b.st]
    [] node.type = "FunctionCall" ->
         LET a == rewriteNodes(node.args, 1, scope, st)
             literal == fold(node.subtype, a.nodes)
         IN IF literal.type # "Null" THEN [node |-> literal, st |-> a.st]
            ELSE [node |-> Call(node.subtype, a.nodes),
                  st |-> dependsOn(node.subtype, scope, a.st)]
    [] node.type = "Identifier" /\ node.subtype = "EVM_VERSION" ->
         [node |-> LiteralNumber(hardforks[st.hardfork]), st |-> st]
    [] OTHER -> [node |-> node, st |-> st]

\* Transformer.transform on a parsed input
transform(input, st) == rewrite(input, RootScope, st)

\* ------------------------------------------------------------------------
\* Inputs of the transformer
\* ------------------------------------------------------------------------

\* statements in one body
MaxStatements == 2

\* elif branches after the @if
MaxBranches == 2

SeqsUpTo(S, n) == UNION {[1 .. k -> S] : k \in 1 .. n}

\* a statement that calls no helper
Marker(i) == Call("sstore", <<LiteralNumber(i), LiteralNumber(i)>>)

\* statements that call a helper, directly or in an argument
HelperCalls ==
  {Call("__panic", <<LiteralNumber(1)>>),
   Call("pop", <<Call("__hash256_1", <<Identifier("x")>>)>>),
   Call("__hash256_3",
        <<LiteralNumber(0), LiteralNumber(0), LiteralNumber(WordBytes)>>)}

SimpleStatements == HelperCalls \cup {Marker(0)}

\* a block, an @if that is taken and an include, each around simple
\* statements
NestedStatements ==
  UNION {{Block(b),
          FoldNode(LiteralNumber(1), Root(b), <<>>, Null),
          IncludeCall(Root(b))} : b \in SeqsUpTo(SimpleStatements, MaxStatements)}

Bodies == SeqsUpTo(SimpleStatements \cup NestedStatements, MaxStatements)

\* the body at the top level of a file without objects, in the code block
\* of an object, and in a code block outside of any object
DepsPrograms ==
  UNION {{Root(b),
          Root(<<ObjectBlock(Block(<<CodeBlock(Block(b))>>))>>),
          Root(<<CodeBlock(Block(b))>>)} : b \in Bodies}

\* conditions of an @if: literals written in decimal, hex and as booleans,
\* calls the folder reduces to a literal, and expressions known at run time
Conditions ==
  {LiteralNumber(0), HexNumber(<<0, 0>>), BoolLiteral(0),
   LiteralNumber(1), BoolLiteral(1), HexNumber(ToDigits(U256_MAX, 16)),
   Call("eq", <<LiteralNumber(1), LiteralNumber(1)>>),
   Call("lt", <<LiteralNumber(1), LiteralNumber(0)>>),
   Identifier("x"),
   Call("calldatasize", <<>>)}

\* the body of branch i: i statements found in no other body
BranchBody(i) == Root([k \in 1 .. i |-> Marker(10 * i + k)])

ElseBody == Root(<<Marker(1)>>)

FoldChains ==
  UNION {{FoldNode(c[1], BranchBody(1),
                   [i \in 1 .. n - 1 |-> <<c[i + 1], BranchBody(i + 1)>>],
                   otherwise) :
            c \in [1 .. n -> Conditions], otherwise \in {Null, ElseBody}} :
         n \in 1 .. MaxBranches + 1}

\* an @if between two statements at the top level
IfPrograms == {Root(<<Marker(8), f, Marker(9)>>) : f \in FoldChains}

DepsInit ==
  /\ root \in DepsPrograms
  /\ options = NoOptions
  /\ object = -1
  /\ depends = <<>>
  /\ output = Null
  /\ transformPc = "ready"
  /\ OthersIdle("transform")

IfInit ==
  /\ root \in IfPrograms
  /\ options = NoOptions
  /\ object = -1
  /\ depends = <<>>
  /\ output = Null
  /\ transformPc = "ready"
  /\ OthersIdle("transform")

\* new Transformer(root, ...).transform()
Transform ==
  /\ transformPc = "ready"
  /\ LET t == Transformer(options)
         r == IF t.error # "" THEN Throw(t, t.error) ELSE transform(root, t)
     IN /\ object' = r.st.object
        /\ depends' = r.st.depends
        /\ output' = IF r.st.error = "" THEN r.node ELSE Null
        /\ transformPc' = IF r.st.error = "" THEN "done" ELSE "error"
  /\ UNCHANGED <<root, options>>
  /\ OthersUnchanged("transform")

\* ------------------------------------------------------------------------
\* Properties of the transformer on statements
\* ------------------------------------------------------------------------

\* the number of definitions of the function name among nodes
DefCount(nodes, name) ==
  Cardinality({i \in 1 .. Len(nodes) :
                 nodes[i].type = "FunctionDefinition" /\ nodes[i].name = name})

\* the emitted body of scope n: the output's top level for the root, the
\* body of the object's code block for a code block
ScopeOutput(n) ==
  IF n = 1 THEN output.nodes ELSE output.nodes[1].block.body[1].block.body

\* the helpers collected by scope n are each defined once in its output
DefinedOnceIn(n) ==
  \A i \in 1 .. Len(depends[n]) : DefCount(ScopeOutput(n), depends[n][i]) = 1

\* C2: every helper registered through dependsOn is defined exactly once in
\* the output of the scope that collects it (the enclosing code block, or
\* the root when there is none), also when statements sit in the nested
\* Root nodes of @if bodies and includes.
HelperDefinedOnce ==
  transformPc = "done" => \A n \in 1 .. Len(depends) : DefinedOnceIn(n)

\* the helpers collected by a code block are each defined once in it, and
\* the root collects none then
HelperDefinedOnceInCodeBlock ==
  (transformPc = "done" /\ Len(depends) = 2) =>
    /\ depends[1] = <<>>
    /\ DefinedOnceIn(2)

\* a file without objects whose only statement is an @if around one call of
\* a helper: the helper is defined twice at the top level
HelperDefinedTwice ==
  /\ transformPc = "done"
  /\ root = Root(<<FoldNode(LiteralNumber(1),
                           Root(<<Call("__panic", <<LiteralNumber(1)>>)>>),
                           <<>>, Null)>>)
  /\ depends = <<<<"__panic">>>>
  /\ Len(output.nodes) = 3
  /\ DefCount(output.nodes, "__panic") = 2

\* the conditions and the bodies of an @if chain, in order
ConditionsOf(f) ==
  <<f.expr>> \o [i \in 1 .. Len(f.branches) |-> f.branches[i][1]]

BodiesOf(f) ==
  <<f.block>> \o [i \in 1 .. Len(f.branches) |-> f.branches[i][2]]

\* an expression whose value is known at transform time: a numeric literal,
\* or an opcode the folder knows applied to numeric literals
Known(expr) ==
  \/ isLiteral(expr)
  \/ /\ expr.type = "FunctionCall"
     /\ expr.subtype \in FoldOps
     /\ Len(expr.args) = Arity(expr.subtype)
     /\ isLiterals(expr.args)

\* the first condition with a non-zero value, 0 when there is none
FirstTaken(conds) ==
  LET taken == {i \in 1 .. Len(conds) : Eval(conds[i], <<>>) # 0}
  IN IF taken = {} THEN 0 ELSE CHOOSE i \in taken : \A j \in taken : i <= j

\* the nodes of a sequence that are statements
Statements(nodes) == SelectSeq(nodes, LAMBDA n : n.type # "Null")

\* an @if between two statements at the top level has been transformed
IfTransformed ==
  /\ transformPc = "done"
  /\ root.type = "Root"
  /\ Len(root.nodes) = 3
  /\ root.nodes[2].type = "Fold"

\* C5: when every condition of an @if chain is known at transform time, the
\* output holds, in place of the @if, the statements of the body of the
\* first condition that is not zero, those of the else body when every
\* condition is zero and there is an else, and nothing otherwise; no
\* statement of another body is in the output.
IfInlinesOneBody ==
  (/\ IfTransformed
   /\ \A i \in 1 .. Len(ConditionsOf(root.nodes[2])) :
        Known(ConditionsOf(root.nodes[2])[i])) =>
    LET f == root.nodes[2]
        t == FirstTaken(ConditionsOf(f))
        inlined == IF t # 0 THEN BodiesOf(f)[t].nodes
                   ELSE IF f.otherwise.type # "Null" THEN f.otherwise.nodes
                   ELSE <<>>
    IN Statements(output.nodes) = <<Marker(8)>> \o inlined \o <<Marker(9)>>

\* a chain of three conditions, the first two zero and the third a call
\* that folds to one, with an else: the third body is inlined
IfInlinesWitness ==
  /\ IfTransformed
  /\ ConditionsOf(root.nodes[2]) =
       <<BoolLiteral(0), Call("lt", <<LiteralNumber(1), LiteralNumber(0)>>),
         Call("eq", <<LiteralNumber(1), LiteralNumber(1)>>)>>
  /\ root.nodes[2].otherwise = ElseBody
  /\ output.nodes = <<Marker(8)>> \o BranchBody(3).nodes \o <<Marker(9)>>

\* condition j of the chain is evaluated: no condition before it is known
\* and not zero
Evaluated(conds, j) ==
  \A i \in 1 .. j - 1 : ~(Known(conds[i]) /\ Eval(conds[i], <<>>) # 0)

\* C6: when a condition of an @if chain that is evaluated is not known at
\* transform time, the transformation fails with an error.
IfUnknownFails ==
  (/\ transformPc \in {"done", "error"}
   /\ root.type = "Root"
   /\ Len(root.nodes) = 3
   /\ root.nodes[2].type = "Fold"
   /\ \E j \in 1 .. Len(ConditionsOf(root.nodes[2])) :
        /\ Evaluated(ConditionsOf(root.nodes[2]), j)
        /\ ~Known(ConditionsOf(root.nodes[2])[j])) =>
    transformPc = "error"

\* an @if on a variable of the run time, with an else: the transformation
\* succeeds and the else body is inlined
IfUnknownSkipped ==
  /\ IfTransformed
  /\ ConditionsOf(root.nodes[2]) = <<Identifier("x")>>
  /\ root.nodes[2].otherwise = ElseBody
  /\ output.nodes = <<Marker(8)>> \o ElseBody.nodes \o <<Marker(9)>>

\* ------------------------------------------------------------------------
\* @if on the EVM version
\* ------------------------------------------------------------------------

\* the hardfork option: the versions of the table and one that is not in it
HardforkNames == DOMAIN hardforks \cup {"prague"}

\* the ordinals EVM_VERSION is compared with
VersionLiterals ==
  {DecimalNumber(ToDigits(n, 10)) : n \in {201912, 202108, 202304, 300000}}

VersionConditions ==
  {Call(op, <<Identifier("EVM_VERSION"), n>>) :
     op \in {"gt", "lt", "eq"}, n \in VersionLiterals}

VersionPrograms ==
  {Root(<<Marker(8), FoldNode(c, BranchBody(2), <<>>, otherwise), Marker(9)>>) :
     c \in VersionConditions, otherwise \in {Null, ElseBody}}

VersionInit ==
  /\ root \in VersionPrograms
  /\ options \in {Options(h) : h \in HardforkNames} \cup {NoOptions}
  /\ object = -1
  /\ depends = <<>>
  /\ output = Null
  /\ transformPc = "ready"
  /\ OthersIdle("transform")

\* the statements of the output between the two markers
Inlined == SubSeq(Statements(output.nodes), 2, Len(Statements(output.nodes)) - 1)

\* the input is @if gt(EVM_VERSION, 202304) { B }
IsVersionExample ==
  root.nodes[2].expr =
    Call("gt", <<Identifier("EVM_VERSION"),
                 DecimalNumber(<<2, 0, 2, 3, 0, 4>>)>>)

\* C16 as stated: with the hardfork option shanghai,
\* @if gt(EVM_VERSION, 202304) { B } emits no statement of B; with the
\* option cancun the transformer accepts the option, EVM_VERSION is 300000
\* and B is inlined.
CancunInlines ==
  transformPc # "ready" /\ transformPc # "idle" /\ IsVersionExample =>
    /\ options = Options("shanghai") =>
         /\ transformPc = "done"
         /\ \A i \in 1 .. Len(Inlined) :
              \A k \in 1 .. Len(BranchBody(2).nodes) :
                Inlined[i] # BranchBody(2).nodes[k]
    /\ options = Options("cancun") =>
         /\ transformPc = "done"
         /\ Inlined = BranchBody(2).nodes

\* what the first argument of a condition on the version has to be for the
\* body to be inlined
VersionHolds(cond, ordinal) ==
  LET n == toBigInt(cond.args[2])
  IN CASE cond.subtype = "gt" -> ordinal > n
       [] cond.subtype = "lt" -> ordinal < n
       [] OTHER -> ordinal = n

\* C16, amended: the option cancun, whose ordinal 300000 is not below
\* 300000, and a name that is not in the table are rejected by the
\* constructor; with every other version of the table (london without
\* options) EVM_VERSION is the ordinal of the version, and the body of an
\* @if on it is inlined when the condition holds of the ordinal, the else
\* body or nothing otherwise: shanghai drops the body of
\* @if gt(EVM_VERSION, 202304).
VersionFold ==
  transformPc # "ready" /\ transformPc # "idle" =>
    LET name == IF options = NoOptions THEN "london" ELSE options.subtype
    IN IF name \notin DOMAIN hardforks \/ name = "cancun"
         THEN transformPc = "error"
         ELSE /\ transformPc = "done"
              /\ Inlined =
                   IF VersionHolds(root.nodes[2].expr, hardforks[name])
                     THEN BranchBody(2).nodes
                   ELSE IF root.nodes[2].otherwise.type # "Null"
                     THEN ElseBody.nodes
                   ELSE <<>>

\* shanghai has dropped the body of @if gt(EVM_VERSION, 202304)
VersionFoldWitness ==
  /\ transformPc = "done"
  /\ options = Options("shanghai")
  /\ IsVersionExample
  /\ root.nodes[2].otherwise.type = "Null"
  /\ output.nodes = <<Marker(8), Null, Marker(9)>>

\* the constructor has rejected cancun
CancunRejected ==
  /\ transformPc = "error"
  /\ options = Options("cancun")
  /\ IsVersionExample

\* ------------------------------------------------------------------------
\* Methods and the dispatcher of a code block.  A selector is the text of
\* Method.signature after its 0x: eight hexadecimal digits.
\* ------------------------------------------------------------------------

If(expr, body) == [type |-> "If", expr |-> expr, block |-> body]

Xor(x, y) == Call("xor", <<x, y>>)

CallValue == Call("callvalue", <<>>)

CallDataLoad(pos) == Call("calldataload", <<LiteralNumber(pos)>>)

CallDataSize == Call("calldatasize", <<>>)

Eq(x, y) == Call("eq", <<x, y>>)

Lt(x, y) == Call("lt", <<x, y>>)

Stop == Call("stop", <<>>)

Revert == Call("revert", <<LiteralNumber(0), LiteralNumber(0)>>)

RequireZero(expr) == If(expr, Block(<<Revert>>))

RequireEq(x, y) == RequireZero(Xor(x, y))

RequireGte(x, y) == RequireZero(Lt(x, y))

Switch(expr, cases, def) ==
  [type |-> "Switch", expr |-> expr, cases |-> cases, def |-> def]

Case(value, body) == [type |-> "Case", value |-> value, block |-> body]

Default(body) == [type |-> "Default", block |-> body]

\* an ABI type as the parser hands it over: its text, base, width and
\* whether it is an array
AbiType(value, base, width, array) ==
  [value |-> value, base |-> base, width |-> width, array |-> array]

\* new MethodParam(name, type, offset); the name is "" for a parameter
\* without a name
MethodParam(name, type, offset) ==
  [name |-> name, type |-> type.value, base |-> type.base,
   width |-> type.width, array |-> type.array, offset |-> offset]

\* MethodParam.unit
ParamUnit(param) == IF param.width = 0 THEN 1 ELSE 32

\* MethodParam.check on calldataload(param.offset)
ParamCheck(param, expr) ==
  IF param.array
    THEN Call("__check_calldata_array",
              <<expr.args[1], LiteralNumber(ParamUnit(param))>>)
  ELSE IF param.width = 256 THEN Null
  ELSE IF param.base = "int"
    THEN Call("__check_int", <<expr, LiteralNumber(param.width)>>)
  ELSE IF param.base \in {"bytes", "function"}
    THEN RequireZero(Shl(param.width, expr))
  ELSE RequireZero(Shr(param.width, expr))

\* methodHash: the first four bytes of the hash of the name and the types.
\* The hash is stood for by a table in which two of the functions collide,
\* fallback() has the selector of a function, and the other entries differ.
methodHash(name, types) ==
  IF name = "receive" THEN <<0, 1, 0, 0, 0, 0, 0, 0>>
  ELSE IF Len(types) = 0 /\ name \in {"f", "g", "fallback"}
    THEN <<0, 0, 0, 0, 0, 0, 0, 1>>
  ELSE IF Len(types) = 0 THEN <<0, 0, 0, 0, 0, 0, 1, 1>>
  ELSE IF types[1] = "uint8" THEN <<0, 0, 0, 0, 0, 1, 0, 0>>
  ELSE IF types[1] = "int8" THEN <<0, 0, 0, 0, 1, 0, 0, 0>>
  ELSE <<0, 0, 0, 1, 0, 0, 0, 0>>

\* a parsed MethodDefinition; params and returns are the items of its
\* lists, each a type and a name ("" for none); its block is empty
MethodNode(name, params, mutability, modifier, returns) ==
  [type |-> "MethodDefinition", name |-> name, params |-> params,
   mutability |-> mutability, modifier |-> modifier, returns |-> returns]

\* an init that takes a receive that is not payable
MethodInitErrorAnyReceive(node) ==
  IF /\ node.name \in {"receive", "fallback"}
     /\ (Len(node.params) > 0 \/ Len(node.returns) > 0)
    THEN "cannot have params/returns."
  ELSE IF \E i, j \in 1 .. Len(node.params) :
            i < j /\ node.params[i][2] # "" /\
              node.params[i][2] = node.params[j][2]
    THEN "Duplicate parameter name"
  ELSE ""

\* the Error that Method.init throws, "" when it throws none
MethodInitError(node) ==
  IF /\ node.name \in {"receive", "fallback"}
     /\ (Len(node.params) > 0 \/ Len(node.returns) > 0)
    THEN "cannot have params/returns."
  ELSE IF node.name = "receive" /\ node.mutability # "payable"
    THEN "must be payable."
  ELSE IF \E i, j \in 1 .. Len(node.params) :
            i < j /\ node.params[i][2] # "" /\
              node.params[i][2] = node.params[j][2]
    THEN "Duplicate parameter name"
  ELSE ""

\* the parameters laid out without the padding to a word
MethodInitParamsPacked(items, first) ==
  [i \in 1 .. Len(items) |->
     MethodParam(items[i][2], items[i][1], first + i - 1)]

\* the loop of init over the items of a list: the first parameter is at
\* offset first and every parameter takes 32 bytes
MethodInitParams(items, first) ==
  [i \in 1 .. Len(items) |->
     MethodParam(items[i][2], items[i][1], first + 32 * (i - 1))]

\* whether a list of items has an array, a signed integer below 256 bits
ItemsArray(items) == \E i \in 1 .. Len(items) : items[i][1].array

ItemsSigned(items) ==
  \E i \in 1 .. Len(items) :
    /\ ~items[i][1].array
    /\ items[i][1].base = "int"
    /\ items[i][1].width < 256

\* new Method(node)
Method(node) ==
  [type |-> IF node.name \in {"receive", "fallback"}
              THEN node.name ELSE "function",
   name |-> node.name,
   params |-> MethodInitParams(node.params, 4),
   returns |-> MethodInitParams(node.returns, 0),
   mutability |-> node.mutability,
   modifier |-> node.modifier,
   array |-> ItemsArray(node.params),
   signed |-> ItemsSigned(node.params),
   retArray |-> ItemsArray(node.returns),
   retSigned |-> ItemsSigned(node.returns),
   signature |-> methodHash(node.name,
                   [i \in 1 .. Len(node.params) |-> node.params[i][1].value])]

\* the checks of the parameters, from parameter i on
RECURSIVE ParamChecks(_, _)
ParamChecks(params, i) ==
  IF i > Len(params) THEN <<>>
  ELSE LET check == ParamCheck(params[i], CallDataLoad(params[i].offset))
       IN (IF check.type = "Null" THEN <<>> ELSE <<check>>)
            \o ParamChecks(params, i + 1)

\* Method.check: the nodes of the Root it returns
MethodCheck(method) ==
  LET value == IF method.mutability # "payable"
                 THEN <<RequireZero(CallValue)>> ELSE <<>>
      size == LiteralNumber(4 + Len(method.params) * 32)
  IN IF method.type # "function" THEN value
     ELSE value
            \o <<IF method.array THEN RequireGte(CallDataSize, size)
                 ELSE RequireEq(CallDataSize, size)>>
            \o ParamChecks(method.params, 1)

\* the scope of the code block of a contract: its depends map is the second
\* of st.depends
MethodScope ==
  CodeScope(ChildScope(ChildScope(RootScope, "ObjectBlock"), "ObjectBlock"),
            2)

\* Method.addDeps
addDeps(method, scope, st) ==
  LET a == IF method.array
             THEN dependsOn("__check_calldata_array", scope, st) ELSE st
  IN IF method.signed THEN dependsOn("__check_int", scope, a) ELSE a

\* the three dependsOn of a locked method
mutexDeps(scope, st) ==
  dependsOn("__mutex_unlock", scope,
    dependsOn("__mutex_lock", scope,
      dependsOn("__mutex_key", scope, st)))

MethodCallNode(name) == Call("__method_" \o name, <<>>)

\* the arm of a locked method with the mutex released before the call
selectArmUnlockFirst(method) ==
  Block(MethodCheck(method)
          \o <<Call("__mutex_lock", <<>>), Call("__mutex_unlock", <<>>),
               MethodCallNode(method.name)>>)

\* the block that method.select builds for one method
selectArm(method) ==
  IF method.modifier = "locked"
    THEN Block(MethodCheck(method)
                 \o <<Call("__mutex_lock", <<>>),
                      MethodCallNode(method.name),
                      Call("__mutex_unlock", <<>>)>>)
    ELSE Block(MethodCheck(method) \o <<MethodCallNode(method.name)>>)

\* the loop of method.select over scope.methods, from method i on; acc holds
\* fallback, receive (Null while there is none), cases and the
\* transformer's state
RECURSIVE selectLoop(_, _, _, _)
selectLoop(ms, i, scope, acc) ==
  IF i > Len(ms) THEN acc
  ELSE LET method == ms[i]
           deps == addDeps(method, scope, acc.st)
           st == IF method.modifier = "locked" THEN mutexDeps(scope, deps)
                 ELSE deps
           arm == selectArm(method)
       IN selectLoop(ms, i + 1, scope,
            IF method.name = "receive"
              THEN [acc EXCEPT !.receive = arm, !.st = st]
            ELSE IF method.name = "fallback"
              THEN [acc EXCEPT !.fallback = arm, !.st = st]
            ELSE [acc EXCEPT
                    !.cases = Append(@, Case(HexNumber(method.signature),
                                             arm)),
                    !.st = st])

\* the arm of short calldata that never runs receive
selectEitherNoReceive(receive, fallback) == fallback

\* the arm of calldata shorter than a selector
selectEither(receive, fallback) ==
  IF receive.type # "Null"
    THEN Block(<<Switch(Eq(CallDataSize, LiteralNumber(0)),
                        <<Case(LiteralNumber(1), receive)>>,
                        Default(fallback))>>)
    ELSE fallback

\* builtin method.select() on scope.methods
methodSelect(ms, scope, st) ==
  IF Len(ms) = 0 THEN [node |-> Stop, st |-> st]
  ELSE LET acc == selectLoop(ms, 1, scope,
                    [fallback |-> Block(<<Revert>>), receive |-> Null,
                     cases |-> <<>>, st |-> st])
       IN [node |->
             Root(<<Switch(Lt(CallDataSize, LiteralNumber(4)),
                      <<Case(LiteralNumber(1),
                             selectEither(acc.receive, acc.fallback))>>,
                      Default(Block(<<Switch(Shr(224, CallDataLoad(0)),
                                             acc.cases,
                                             Default(acc.fallback))>>))),
                    Stop>>),
           st |-> acc.st]

\* scope.findMethod(name): the place of the method in scope.methods, 0 when
\* there is none
findMethod(ms, name) ==
  IF \E i \in 1 .. Len(ms) : ms[i].name = name
    THEN CHOOSE i \in 1 .. Len(ms) : ms[i].name = name
    ELSE 0

\* builtin method.call(name)
methodCall(name, ms, scope, st) ==
  LET i == findMethod(ms, name)
  IN IF i = 0 THEN Throw(st, "not found.")
     ELSE IF ms[i].modifier = "locked"
       THEN [node |-> Root(<<Call("__mutex_lock", <<>>),
                             MethodCallNode(name),
                             Call("__mutex_unlock", <<>>)>>),
             st |-> mutexDeps(scope, st)]
     ELSE [node |-> MethodCallNode(name), st |-> st]

\* Scope.addMethod: the Error it throws, "" when it throws none
addMethodError(ms, method) ==
  IF findMethod(ms, method.name) # 0 THEN "already defined." ELSE ""

\* a check of the names only
abiAddErrorNameOnly(contract, item) ==
  IF item \in contract.items THEN ""
  ELSE IF <<item.type, item.name>> \in contract.names
    THEN "already defined."
  ELSE ""

\* ABI.add with _addName and _addSignature: the Error it throws
abiAddError(contract, item) ==
  IF item \in contract.items THEN ""
  ELSE IF <<item.type, item.name>> \in contract.names
    THEN "already defined."
  ELSE IF /\ item.signature # <<>>
          /\ <<item.type, item.signature>> \in contract.signatures
    THEN "collides."
  ELSE ""

\* the contract after ABI.add, thrown or not: the item is in the set before
\* its name is checked, and its name before its signature is
abiAdd(contract, item) ==
  IF item \in contract.items THEN contract
  ELSE LET named == [contract EXCEPT !.items = @ \cup {item}]
           keyed ==
             [named EXCEPT !.names = @ \cup {<<item.type, item.name>>}]
       IN IF <<item.type, item.name>> \in contract.names THEN named
          ELSE IF \/ item.signature = <<>>
                  \/ <<item.type, item.signature>> \in contract.signatures
            THEN keyed
          ELSE [keyed EXCEPT
                  !.signatures = @ \cup {<<item.type, item.signature>>}]

\* ------------------------------------------------------------------------
\* A code block of method definitions, method.select() and method.call()
\* ------------------------------------------------------------------------

\* statements of a code block
MaxCodeStatements == 4

Uint8 == AbiType("uint8", "uint", 8, FALSE)

Int8 == AbiType("int8", "int", 8, FALSE)

Uint256 == AbiType("uint256", "uint", 256, FALSE)

Uint256Array == AbiType("uint256[]", "uint", 256, TRUE)

Modifiers == {"", "locked"}

MethodNodes ==
  {MethodNode("f", params, mutability, modifier, <<>>) :
     params \in {<<>>, <<<<Uint8, "a">>>>}, mutability \in {"", "payable"},
     modifier \in Modifiers}
    \cup {MethodNode("g", params, "", modifier, <<>>) :
            params \in {<<>>, <<<<Int8, "a">>>>, <<<<Uint256Array, "a">>>>,
                        <<<<Uint256, "a">>>>},
            modifier \in Modifiers}
    \cup {MethodNode("receive", <<>>, mutability, modifier, <<>>) :
            mutability \in {"", "payable"}, modifier \in Modifiers}
    \cup {MethodNode("fallback", <<>>, mutability, modifier, <<>>) :
            mutability \in {"", "payable"}, modifier \in Modifiers}

\* the names method.call is given; no method is ever named h
CallNames == {"f", "fallback", "h"}

MethodSelectNode == Call("method.select", <<>>)

MethodCallOf(name) == Call("method.call", <<Identifier(name)>>)

CodeInit ==
  /\ codeBody = <<>>
  /\ methods = <<>>
  /\ abi = NoAbi
  /\ codeDepends = <<>>
  /\ codeOut = <<>>
  /\ codePc = "open"
  /\ codeError = ""
  /\ OthersIdle("code")

CodeFails(msg) ==
  /\ codePc' = "error"
  /\ codeError' = msg
  /\ UNCHANGED <<codeBody, methods, abi, codeDepends, codeOut>>

CodeState == [object |-> 0, depends |-> <<<<>>, codeDepends>>, error |-> ""]

\* Transformer.rewrite case 'MethodDefinition' in the scope of a code block
MethodDefinition ==
  /\ codePc = "open"
  /\ Len(codeBody) < MaxCodeStatements
  /\ \E node \in MethodNodes :
       LET method == Method(node)
       IN IF MethodInitError(node) # "" THEN CodeFails(MethodInitError(node))
          ELSE IF addMethodError(methods, method) # ""
            THEN CodeFails(addMethodError(methods, method))
          ELSE IF abiAddError(abi, method) # ""
            THEN CodeFails(abiAddError(abi, method))
          ELSE /\ codeBody' = Append(codeBody, node)
               /\ methods' = Append(methods, method)
               /\ abi' = abiAdd(abi, method)
               /\ codeOut' =
                    Append(codeOut,
                           FunctionDefinition("__method_" \o method.name,
                                              Block(<<>>), FALSE))
               /\ UNCHANGED <<codeDepends, codePc, codeError>>
  /\ OthersUnchanged("code")

\* Transformer.builtin case 'method.select'
MethodSelect ==
  /\ codePc = "open"
  /\ Len(codeBody) < MaxCodeStatements
  /\ LET r == methodSelect(methods, MethodScope, CodeState)
     IN /\ codeBody' = Append(codeBody, MethodSelectNode)
        /\ codeOut' = Append(codeOut, r.node)
        /\ codeDepends' = r.st.depends[2]
  /\ UNCHANGED <<methods, abi, codePc, codeError>>
  /\ OthersUnchanged("code")

\* Transformer.builtin case 'method.call'
MethodCall ==
  /\ codePc = "open"
  /\ Len(codeBody) < MaxCodeStatements
  /\ \E name \in CallNames :
       LET r == methodCall(name, methods, MethodScope, CodeState)
       IN IF r.st.error # "" THEN CodeFails(r.st.error)
          ELSE /\ codeBody' = Append(codeBody, MethodCallOf(name))
               /\ codeOut' = Append(codeOut, r.node)
               /\ codeDepends' = r.st.depends[2]
               /\ UNCHANGED <<methods, abi, codePc, codeError>>
  /\ OthersUnchanged("code")

CodeNext == MethodDefinition \/ MethodSelect \/ MethodCall

\* ------------------------------------------------------------------------
\* Properties of the dispatcher
\* ------------------------------------------------------------------------

\* the bytes of a selector: two hexadecimal digits each
SelectorBytes(digits) ==
  [i \in 1 .. Len(digits) \div 2 |-> 16 * digits[2 * i - 1] + digits[2 * i]]

\* calldata of a call: empty, shorter than a selector, the selector of each
\* method that can be declared and two selectors that none has, each alone
\* and followed by one more byte
CallDatas ==
  LET heads == {SelectorBytes(Method(node).signature) : node \in MethodNodes}
                 \cup {<<0, 0, 0, 0>>, <<0, 0, 0, 2>>}
  IN {<<>>, <<0>>, <<0, 0, 0>>, <<0, 0, 1>>}
       \cup heads \cup {head \o <<0>> : head \in heads}

\* calldataload(pos) shifted right by shift bits, for a shift that leaves
\* four bytes or fewer: the bytes past the end of calldata are zero
CallDataLoadShr(data, pos, shift) ==
  LET n == 32 - shift \div 8
      bytes == [i \in 1 .. n |->
                  IF pos + i <= Len(data) THEN data[pos + i] ELSE 0]
  IN FromDigits(bytes, 256) \div Pow2(shift % 8)

\* the value of an expression of the dispatcher on a call
RECURSIVE DispatchEval(_, _)
DispatchEval(expr, data) ==
  IF expr.type = "Literal" THEN toBigInt(expr)
  ELSE IF isCall(expr, "calldatasize", 0) THEN Len(data)
  ELSE IF isCall(expr, "lt", 2)
    THEN Bool01(DispatchEval(expr.args[1], data)
                  < DispatchEval(expr.args[2], data))
  ELSE IF isCall(expr, "eq", 2)
    THEN Bool01(DispatchEval(expr.args[1], data)
                  = DispatchEval(expr.args[2], data))
  ELSE IF isCall(expr, "shr", 2) /\ isCall(expr.args[2], "calldataload", 1)
    THEN CallDataLoadShr(data, toBigInt(expr.args[2].args[1]),
                         toBigInt(expr.args[1]))
  ELSE -1

\* the arms a call runs: a switch runs the blocks of the cases whose value
\* is that of its expression, its default when there is none; a block that
\* is one switch runs what the switch runs, any other block is an arm
RECURSIVE Route(_, _)
Route(node, data) ==
  IF node.type = "Switch"
    THEN LET v == DispatchEval(node.expr, data)
             hit == {i \in 1 .. Len(node.cases) :
                       toBigInt(node.cases[i].value) = v}
         IN IF hit = {} THEN Route(node.def.block, data)
            ELSE UNION {Route(node.cases[i].block, data) : i \in hit}
  ELSE IF Len(node.body) = 1 /\ node.body[1].type = "Switch"
    THEN Route(node.body[1], data)
  ELSE {node}

MethodNames == {node.name : node \in MethodNodes}

\* the methods an arm calls; none for the bare revert
ArmTargets(arm) ==
  {name \in MethodNames :
     \E i \in 1 .. Len(arm.body) : arm.body[i] = MethodCallNode(name)}

\* the methods declared before statement i of the code block
MethodsBefore(i) ==
  SubSeq(methods, 1,
         Cardinality({j \in 1 .. i - 1 :
                        codeBody[j].type = "MethodDefinition"}))

HasMethod(ms, name) == \E k \in 1 .. Len(ms) : ms[k].name = name

\* the methods the fallback arm calls
FallbackTargets(ms) ==
  IF HasMethod(ms, "fallback") THEN {"fallback"} ELSE {}

\* the methods that the arm of a call has to call
ExpectedTargets(ms, data) ==
  IF Len(data) < 4
    THEN IF HasMethod(ms, "receive") /\ Len(data) = 0 THEN {"receive"}
         ELSE FallbackTargets(ms)
  ELSE LET selector == FromDigits(SubSeq(data, 1, 4), 256)
           match == {k \in 1 .. Len(ms) :
                       /\ ms[k].name \notin {"receive", "fallback"}
                       /\ FromDigits(ms[k].signature, 16) = selector}
       IN IF match = {} THEN FallbackTargets(ms)
          ELSE {ms[k].name : k \in match}

Dispatchers ==
  {i \in 1 .. Len(codeOut) : codeBody[i] = MethodSelectNode}

\* the cases of the switch on the selector
SelectorCases(dispatcher) == dispatcher.nodes[1].def.block.body[1].cases

\* a dispatcher of the methods ms routes every call to one arm, the one the
\* methods call for, and its selector cases are those of distinct functions
Routes(dispatcher, ms) ==
  /\ dispatcher.type = "Root"
  /\ Len(dispatcher.nodes) = 2
  /\ dispatcher.nodes[1].type = "Switch"
  /\ dispatcher.nodes[2] = Stop
  /\ \A data \in CallDatas :
       LET arms == Route(dispatcher.nodes[1], data)
       IN /\ Cardinality(arms) = 1
          /\ \A arm \in arms :
               /\ ArmTargets(arm) = ExpectedTargets(ms, data)
               /\ ArmTargets(arm) = {} => arm = Block(<<Revert>>)
  /\ LET cases == SelectorCases(dispatcher)
     IN /\ \A c \in 1 .. Len(cases) :
             ArmTargets(cases[c].block) \cap {"receive", "fallback"} = {}
        /\ \A c, d \in 1 .. Len(cases) :
             c # d => toBigInt(cases[c].value) # toBigInt(cases[d].value)

\* C3 as stated: the dispatcher that method.select() emits routes every call
\* to exactly one arm: calldata shorter than 4 bytes to the receive arm when
\* a receive method exists and calldata is empty, else to the fallback arm
\* (the fallback method, or a bare revert(0, 0)); longer calldata to the arm
\* of the method whose selector is its first 4 bytes, else to the fallback
\* arm; receive and fallback are no selector cases and no two cases have
\* the same selector.
DispatcherRoutesAlways ==
  \A i \in Dispatchers : Routes(codeOut[i], MethodsBefore(i))

\* C3, amended: the above holds of a method.select() that follows the
\* declaration of at least one method, for the methods declared before it;
\* a method.select() that no declaration precedes emits a bare stop().
DispatcherRoutes ==
  \A i \in Dispatchers :
    IF Len(MethodsBefore(i)) = 0 THEN codeOut[i] = Stop
    ELSE Routes(codeOut[i], MethodsBefore(i))

\* a dispatcher of receive and a function without a fallback method: empty
\* calldata runs receive, the function's selector runs the function, short
\* calldata and a selector of no method run the bare revert
DispatcherRoutesWitness ==
  \E i \in Dispatchers :
    LET ms == MethodsBefore(i)
        switch == codeOut[i].nodes[1]
    IN /\ Len(ms) = 2
       /\ HasMethod(ms, "receive")
       /\ HasMethod(ms, "f")
       /\ ArmTargets(CHOOSE arm \in Route(switch, <<>>) : TRUE) = {"receive"}
       /\ Route(switch, <<0>>) = {Block(<<Revert>>)}
       /\ Route(switch, <<0, 0, 0, 2>>) = {Block(<<Revert>>)}
       /\ \E data \in CallDatas :
            ArmTargets(CHOOSE arm \in Route(switch, data) : TRUE) = {"f"}

\* a method.select() that no declaration precedes
DispatcherOfNoMethod ==
  \E i \in Dispatchers : Len(MethodsBefore(i)) = 0 /\ codeOut[i] = Stop

MutexCalls == {Call("__mutex_lock", <<>>), Call("__mutex_unlock", <<>>)}

\* whether a node is, or holds, a call of the mutex or of a method
RECURSIVE CallsGuarded(_)
CallsGuarded(node) ==
  IF node.type = "FunctionCall"
    THEN \/ node \in MutexCalls
         \/ \E name \in MethodNames : node = MethodCallNode(name)
         \/ \E i \in 1 .. Len(node.args) : CallsGuarded(node.args[i])
  ELSE IF node.type = "If"
    THEN CallsGuarded(node.expr) \/ CallsGuarded(node.block)
  ELSE IF node.type = "Block"
    THEN \E i \in 1 .. Len(node.body) : CallsGuarded(node.body[i])
  ELSE FALSE

\* the arms of a dispatcher
RECURSIVE Arms(_)
Arms(node) ==
  IF node.type = "Switch"
    THEN UNION {Arms(node.cases[i].block) : i \in 1 .. Len(node.cases)}
           \cup Arms(node.def.block)
  ELSE IF Len(node.body) = 1 /\ node.body[1].type = "Switch"
    THEN Arms(node.body[1])
  ELSE {node}

\* the arms of a dispatcher that call the method
ArmsOf(dispatcher, method) ==
  {arm \in Arms(dispatcher.nodes[1]) : method.name \in ArmTargets(arm)}

\* the statements of an arm from the first one that calls the mutex or a
\* method
GuardedPart(arm) ==
  LET first == {i \in 1 .. Len(arm.body) : CallsGuarded(arm.body[i])}
  IN IF first = {} THEN <<>>
     ELSE SubSeq(arm.body,
                 CHOOSE i \in first : \A j \in first : i <= j,
                 Len(arm.body))

LockedSequence(name) ==
  <<Call("__mutex_lock", <<>>), MethodCallNode(name),
    Call("__mutex_unlock", <<>>)>>

Add(x, y) == Call("add", <<x, y>>)

Sub(x, y) == Call("sub", <<x, y>>)

MemLoad(ptr) == Call("mload", <<ptr>>)

MemStore(ptr, expr) == Call("mstore", <<ptr, expr>>)

Return(ptr, len) == Call("return", <<ptr, len>>)

Let(ident, expr) ==
  [type |-> "VariableDeclaration", subtype |-> ident.subtype,
   value |-> <<>>, args |-> <<expr>>]

tryFold(node) ==
  IF node.type = "FunctionCall"
    THEN LET literal == fold(node.subtype, node.args)
         IN IF literal.type # "Null" THEN literal ELSE node
    ELSE node

hasSideEffects(node) == node.type # "Literal" /\ node.type # "Identifier"

MemStoreN(ptr, expr) == MemStore(LiteralNumber(ptr), expr)

MemStoreAdd(pos, off, expr) ==
  MemStore(IF off = 0 THEN pos
           ELSE IF isLiteral(pos) THEN Literal(toBigInt(pos) + off)
           ELSE Add(pos, LiteralNumber(off)),
           tryFold(expr))

ArrayLast(xp, unit) ==
  LET size == IF unit = 1
                THEN Shr(5, Add(MemLoad(xp), LiteralNumber(31)))
                ELSE MemLoad(xp)
  IN Add(xp, Add(LiteralNumber(32), Shl(5, size)))

\* MethodParam.ref
ParamRef(param) == LiteralNumber(param.offset)

\* MethodParam.isPadded
isPadded(param) ==
  IF param.array \/ param.width = 256 THEN FALSE
  ELSE param.base \in {"bytes", "function"}

\* MethodParam.encode
ParamEncode(param, expr) ==
  IF isPadded(param) THEN Shl(256 - param.width, expr) ELSE expr

\* a decode that shifts every parameter below 256 bits
ParamDecodeNarrow(param, expr) ==
  IF ~param.array /\ param.width < 256 THEN Shr(256 - param.width, expr)
  ELSE expr

\* MethodParam.decode
ParamDecode(param, expr) ==
  IF isPadded(param) THEN Shr(256 - param.width, expr) ELSE expr

\* MethodParam.read
ParamRead(param) ==
  IF param.array THEN Add(CallDataLoad(param.offset), LiteralNumber(4))
  ELSE ParamDecode(param, CallDataLoad(param.offset))

\* method.map.get(name): the place of the parameter in method.params, 0
\* when the map has no such name
MethodMapGet(method, name) ==
  IF name # "" /\ \E i \in 1 .. Len(method.params) :
                    method.params[i].name = name
    THEN CHOOSE i \in 1 .. Len(method.params) : method.params[i].name = name
    ELSE 0

CallDataIdentifierNode(member, ref) ==
  [type |-> "CallDataIdentifier", member |-> member, ref |-> ref]

NoMethod == [type |-> "none"]

\* Transformer.rewrite case 'CallDataIdentifier'; method is what
\* scope.findCalldata() returns
rewriteCallData(node, method, st) ==
  IF method = NoMethod THEN Throw(st, "No method available.")
  ELSE LET i == MethodMapGet(method, node.member)
       IN IF i = 0 THEN Throw(st, "Unknown method parameter")
          ELSE [node |-> IF node.ref THEN ParamRef(method.params[i])
                         ELSE ParamRead(method.params[i]),
                st |-> st]

\* the place of the last array among the returns, 0 when there is none
LastArray(params) ==
  IF \E i \in 1 .. Len(params) : params[i].array
    THEN CHOOSE i \in 1 .. Len(params) :
           /\ params[i].array
           /\ \A j \in 1 .. Len(params) : params[j].array => j <= i
    ELSE 0

\* Method.returnify
returnify(method, offset, args) ==
  LET pos == IF hasSideEffects(offset) THEN Identifier("__rpos") ELSE offset
      stores == [i \in 1 .. Len(method.returns) |->
                   LET param == method.returns[i]
                   IN IF param.array
                        THEN MemStoreAdd(pos, param.offset, Sub(args[i], pos))
                        ELSE MemStoreAdd(pos, param.offset,
                                         ParamEncode(param, args[i]))]
      last == LastArray(method.returns)
      size == IF last # 0
                THEN Sub(ArrayLast(args[last], ParamUnit(method.returns[last])),
                         pos)
                ELSE LiteralNumber(Len(method.returns) * 32)
      body == (IF hasSideEffects(offset) THEN <<Let(pos, offset)>> ELSE <<>>)
                \o stores \o <<Return(pos, size)>>
  IN IF hasSideEffects(offset) THEN Block(body) ELSE Root(body)

\* Transformer.builtin case 'returns' on rewritten arguments
builtinReturns(args, method, st) ==
  IF Len(args) < 1 THEN Throw(st, "returns() requires at least 1 argument.")
  ELSE IF method = NoMethod
    THEN Throw(st, "returns() must be called inside a method.")
  ELSE IF Len(args) # Len(method.returns) + 1
    THEN Throw(st, "Invalid arguments for returns")
  ELSE [node |-> returnify(method, args[1], Tail(args)), st |-> st]

ErrorDeclarationNode(name, params) ==
  [type |-> "ErrorDeclaration", name |-> name, params |-> params]

\* new VMError(node, depth), with the stores of its parameters in the body
\* that generate builds
VMError(node, depth) ==
  LET params == MethodInitParams(node.params, 4)
  IN [type |-> "error", name |-> node.name, depth |-> depth,
      params |-> params,
      array |-> ItemsArray(node.params),
      signature |-> methodHash(node.name,
                      [i \in 1 .. Len(node.params) |->
                         node.params[i][1].value]),
      stores |-> [i \in 1 .. Len(params) |->
                    MemStoreN(4 + 32 * (i - 1),
                              ParamEncode(params[i],
                                Identifier(params[i].name)))]]

\* ------------------------------------------------------------------------
\* A method body that reads its calldata and returns
\* ------------------------------------------------------------------------

\* parameters and return values of a method
MaxParams == 3

Uint32 == AbiType("uint32", "uint", 32, FALSE)

Uint64 == AbiType("uint64", "uint", 64, FALSE)

Bytes4 == AbiType("bytes4", "bytes", 32, FALSE)

Bytes32Array == AbiType("bytes32[]", "bytes", 256, TRUE)

ParamTypes == {Uint32, Uint64, Bytes4, Int8, Uint256, Bytes32Array}

ParamNames == <<"id", "amount", "hashes", "extra">>

ReturnTypes == {Uint256, Bytes4, Uint256Array}

\* lists of at most n items whose types are in types, named by their place
ItemLists(types, n) ==
  UNION {{[i \in 1 .. k |-> <<t[i], ParamNames[i]>>] : t \in [1 .. k -> types]} :
           k \in 0 .. n}

CalldataMethods ==
  {MethodNode("foobar", params, "", "", returns) :
     params \in ItemLists(ParamTypes, MaxParams),
     returns \in ItemLists(ReturnTypes, MaxParams - 1)}

\* the first argument of returns(): a literal, a variable, a call
ReturnBases == {LiteralNumber(0), LiteralNumber(128), Identifier("ptr"),
                MemLoad(LiteralNumber(64))}

CalldataNames == {"id", "amount", "hashes", "nope"}

CalldataInit ==
  /\ calldata \in {Method(node) : node \in CalldataMethods}
  /\ cdNode = Null
  /\ cdOut = Null
  /\ cdPc = "ready"
  /\ OthersIdle("calldata")

\* Transformer.rewrite case 'CallDataIdentifier' in the body of the method
CallDataIdentifier ==
  /\ cdPc = "ready"
  /\ \E member \in CalldataNames, ref \in BOOLEAN :
       LET node == CallDataIdentifierNode(member, ref)
           r == rewriteCallData(node, calldata, NewTransformer)
       IN /\ cdNode' = node
          /\ cdOut' = r.node
          /\ cdPc' = IF r.st.error = "" THEN "done" ELSE "error"
  /\ UNCHANGED calldata
  /\ OthersUnchanged("calldata")

\* Transformer.builtin case 'returns' in the body of the method
Returns ==
  /\ cdPc = "ready"
  /\ \E base \in ReturnBases, n \in 0 .. MaxParams - 1 :
       LET args == <<base>> \o [i \in 1 .. n |-> Identifier(ParamNames[i])]
           r == builtinReturns(args, calldata, NewTransformer)
       IN /\ cdNode' = Call("returns", args)
          /\ cdOut' = r.node
          /\ cdPc' = IF r.st.error = "" THEN "done" ELSE "error"
  /\ UNCHANGED calldata
  /\ OthersUnchanged("calldata")

\* Transformer.rewrite case 'ErrorDeclaration': the VMError it adds
ErrorDeclaration ==
  /\ cdPc = "ready"
  /\ \E params \in ItemLists(ParamTypes, MaxParams - 1) :
       LET node == ErrorDeclarationNode("Failed", params)
       IN /\ cdNode' = node
          /\ cdOut' = VMError(node, 3)
          /\ cdPc' = "done"
  /\ UNCHANGED calldata
  /\ OthersUnchanged("calldata")

CalldataNext == CallDataIdentifier \/ Returns \/ ErrorDeclaration

\* ------------------------------------------------------------------------
\* Properties of the calldata layout
\* ------------------------------------------------------------------------

\* the pointer of store j of returned values at base pos
ReturnSlot(pos, j) ==
  IF j = 1 THEN pos
  ELSE IF isLiteral(pos) THEN Literal(toBigInt(pos) + 32 * (j - 1))
  ELSE Add(pos, LiteralNumber(32 * (j - 1)))

\* the stores of a rewritten returns(): its statements but the last, and but
\* the declaration of __rpos when the base is a call
ReturnStores(node, base) ==
  LET body == IF node.type = "Root" THEN node.nodes ELSE node.body
      first == IF hasSideEffects(base) THEN 2 ELSE 1
  IN SubSeq(body, first, Len(body) - 1)

\* C11: parameter i (from 0) of a method is bound to calldata offset
\* 4 + 32*i and return value j to memory offset 32*j from the base given to
\* returns(); &calldata.<p> is rewritten to the literal offset of p; the
\* parameters of an error declaration have the same 4 + 32*i layout.
CalldataLayout ==
  /\ cdPc # "idle" =>
       /\ \A i \in 1 .. Len(calldata.params) :
            calldata.params[i].offset = 4 + 32 * (i - 1)
       /\ \A j \in 1 .. Len(calldata.returns) :
            calldata.returns[j].offset = 32 * (j - 1)
  /\ cdPc = "done" /\ cdNode.type = "CallDataIdentifier" /\ cdNode.ref =>
       \E i \in 1 .. Len(calldata.params) :
         /\ calldata.params[i].name = cdNode.member
         /\ cdOut = LiteralNumber(4 + 32 * (i - 1))
  /\ cdPc = "done" /\ cdNode.type = "FunctionCall" =>
       LET base == cdNode.args[1]
           pos == IF hasSideEffects(base) THEN Identifier("__rpos") ELSE base
           stores == ReturnStores(cdOut, base)
       IN /\ Len(stores) = Len(calldata.returns)
          /\ \A j \in 1 .. Len(stores) :
               /\ isCall(stores[j], "mstore", 2)
               /\ stores[j].args[1] = ReturnSlot(pos, j)
  /\ cdPc = "done" /\ cdNode.type = "ErrorDeclaration" =>
       /\ Len(cdOut.params) = Len(cdNode.params)
       /\ \A i \in 1 .. Len(cdOut.params) :
            /\ cdOut.params[i].offset = 4 + 32 * (i - 1)
            /\ cdOut.stores[i].args[1] = LiteralNumber(4 + 32 * (i - 1))

\* &calldata.hashes of foobar(uint32 id, uint64 amount, bytes32[] hashes) is
\* rewritten to 68
CalldataLayoutWitness ==
  /\ cdPc = "done"
  /\ [i \in 1 .. Len(calldata.params) |-> calldata.params[i].type]
       = <<"uint32", "uint64", "bytes32[]">>
  /\ Len(calldata.returns) = 2
  /\ cdNode = CallDataIdentifierNode("hashes", TRUE)
  /\ cdOut = LiteralNumber(68)

\* returns(128, id, amount) of a method with two return values stores at 128
\* and 160
ReturnsLayoutWitness ==
  /\ cdPc = "done"
  /\ Len(calldata.returns) = 2
  /\ cdNode.type = "FunctionCall"
  /\ cdNode.args[1] = LiteralNumber(128)
  /\ cdOut.type = "Root"
  /\ cdOut.nodes[1].args[1] = LiteralNumber(128)
  /\ cdOut.nodes[2].args[1] = LiteralNumber(160)

\* the parameter that a rewritten calldata.<p> reads
ReadParam == calldata.params[MethodMapGet(calldata, cdNode.member)]

IsRead ==
  cdPc = "done" /\ cdNode.type = "CallDataIdentifier" /\ ~cdNode.ref

\* C12 as stated: calldata.<p> of an array is add(calldataload(offset), 4),
\* and of every parameter narrower than 256 bits is
\* shr(256 - width, calldataload(offset)): in foobar(uint32 id, uint64
\* amount, bytes32[] hashes), calldata.id is shr(224, calldataload(4)).
CalldataReadShifted ==
  IsRead =>
    cdOut = IF ReadParam.array
              THEN Add(CallDataLoad(ReadParam.offset), LiteralNumber(4))
            ELSE IF ReadParam.width < 256
              THEN Shr(256 - ReadParam.width, CallDataLoad(ReadParam.offset))
            ELSE CallDataLoad(ReadParam.offset)

\* C12, amended: calldata.<p> of an array is add(calldataload(offset), 4);
\* of a bytesN or function parameter narrower than 256 bits it is
\* shr(256 - width, calldataload(offset)); of every other parameter, the
\* integers narrower than 256 bits included, it is calldataload(offset);
\* &calldata.<p> is the literal offset.
CalldataRead ==
  /\ IsRead =>
       cdOut = IF ReadParam.array
                 THEN Add(CallDataLoad(ReadParam.offset), LiteralNumber(4))
               ELSE IF ReadParam.base \in {"bytes", "function"}
                       /\ ReadParam.width < 256
                 THEN Shr(256 - ReadParam.width,
                          CallDataLoad(ReadParam.offset))
               ELSE CallDataLoad(ReadParam.offset)
  /\ cdPc = "done" /\ cdNode.type = "CallDataIdentifier" /\ cdNode.ref =>
       cdOut = LiteralNumber(ReadParam.offset)

\* calldata.id of foobar(uint32 id, uint64 amount, bytes32[] hashes) is
\* rewritten to calldataload(4)
CalldataReadWitness ==
  /\ IsRead
  /\ [i \in 1 .. Len(calldata.params) |-> calldata.params[i].type]
       = <<"uint32", "uint64", "bytes32[]">>
  /\ cdNode.member = "id"
  /\ cdOut = Call("calldataload", <<LiteralNumber(4)>>)

\* calldata.amount of a bytes4 parameter is read through shr(224, .)
CalldataReadPaddedWitness ==
  /\ IsRead
  /\ ReadParam.type = "bytes4"
  /\ cdNode.member = "amount"
  /\ cdOut = Shr(224, CallDataLoad(36))

\* ------------------------------------------------------------------------
\* Scopes and their symbol tables.  A chain of scopes is the sequence of the
\* scopes from the root to the current one; a table is the set of its
\* entries <<name, value>>, one per name.
\* ------------------------------------------------------------------------

SymbolKinds ==
  {"const", "struct", "macro", "func", "interface", "method", "event",
   "error", "var"}

\* new Scope(node, parent, depth)
NewScope(node, depth) ==
  [node |-> node, depth |-> depth, tables |-> [k \in SymbolKinds |-> {}],
   depends |-> {}, data |-> <<>>]

\* Map.has, Map.get, Map.set and Map.delete on a table
TableHas(table, name) == \E e \in table : e[1] = name

TableGet(table, name) == (CHOOSE e \in table : e[1] = name)[2]

TableSet(table, name, value) ==
  {e \in table : e[1] # name} \cup {<<name, value>>}

TableDelete(table, name) == {e \in table : e[1] # name}

\* the tables an add of the kind looks the name up in
AddChecks(kind) ==
  IF kind \in {"const", "var"} THEN {"var", "const"} ELSE {kind}

\* an add that looks the name up in every scope of the chain
ScopeAddErrorAnyScope(chain, kind, name) ==
  \E i \in 1 .. Len(chain) :
    \E k \in AddChecks(kind) : TableHas(chain[i].tables[k], name)

\* addConst .. addVar on the last scope of the chain: whether it throws
ScopeAddError(chain, kind, name) ==
  \E k \in AddChecks(kind) : TableHas(chain[Len(chain)].tables[k], name)

\* addConst .. addVar when it does not throw
ScopeAdd(chain, kind, name, value) ==
  [chain EXCEPT ![Len(chain)].tables[kind] = TableSet(@, name, value)]

\* a lookup that starts at the root
RECURSIVE ScopeFindOutermost(_, _, _)
ScopeFindOutermost(chain, kind, name) ==
  IF Len(chain) = 0 THEN Null
  ELSE IF TableHas(chain[1].tables[kind], name)
    THEN TableGet(chain[1].tables[kind], name)
  ELSE ScopeFindOutermost(Tail(chain), kind, name)

\* findConst .. findVar: the walk of scopes() from the last scope of the
\* chain to the root
RECURSIVE ScopeWalk(_, _, _)
ScopeWalk(chain, kind, name) ==
  IF Len(chain) = 0 THEN Null
  ELSE IF TableHas(chain[Len(chain)].tables[kind], name)
    THEN TableGet(chain[Len(chain)].tables[kind], name)
  ELSE ScopeWalk(SubSeq(chain, 1, Len(chain) - 1), kind, name)

ScopeFind(chain, kind, name) == ScopeWalk(chain, kind, name)

\* the place in the chain of the scope that a walk with a test stops at,
\* the root when none passes the test
RECURSIVE ScopeNearest(_, _, _)
ScopeNearest(chain, i, types) ==
  IF i <= 1 THEN 1
  ELSE IF chain[i].node \in types THEN i
  ELSE ScopeNearest(chain, i - 1, types)

findCodeScope(chain) ==
  ScopeNearest(chain, Len(chain), {"CodeBlock", "ConstructorDefinition"})

findObjectScope(chain) == ScopeNearest(chain, Len(chain), {"ObjectBlock"})

\* the place of the scope undefMacro deletes the macro from, 0 when no
\* scope of the chain defines it
RECURSIVE undefMacroAt(_, _, _)
undefMacroAt(chain, i, name) ==
  IF i = 0 THEN 0
  ELSE IF TableHas(chain[i].tables["macro"], name) THEN i
  ELSE undefMacroAt(chain, i - 1, name)

\* Scope.undefMacro
undefMacro(chain, name) ==
  LET i == undefMacroAt(chain, Len(chain), name)
  IN IF i = 0 THEN chain
     ELSE [chain EXCEPT ![i].tables["macro"] = TableDelete(@, name)]

\* Scope.dependsOn(name) when the function is found
chainDependsOn(chain, name) ==
  [chain EXCEPT ![findCodeScope(chain)].depends = @ \cup {name}]

\* Scope.addData: the blob is named after its place in the list
chainAddData(chain, prefix) ==
  LET i == findObjectScope(chain)
  IN [chain EXCEPT ![i].data = Append(@, <<prefix, Len(chain[i].data)>>)]

\* ------------------------------------------------------------------------
\* Nested blocks that declare, look up and undefine symbols
\* ------------------------------------------------------------------------

\* scopes of a chain
MaxScopes == 3

\* blobs of one object
MaxData == 1

ScopeNames == {"x", "y"}

ScopeNodes == {"ObjectBlock", "CodeBlock", "Block"}

\* the kinds a run declares: one kind, or constants and variables
KindSets == {{k} : k \in SymbolKinds} \cup {{"const", "var"}}

\* the root scope with the helper of the builtins
BuiltinRoot ==
  [NewScope("Root", 0) EXCEPT
     !.tables["func"] = {<<"__helper", <<"func", 0>>>>}]

ScopeOp(op, kind, name, result, at) ==
  [op |-> op, kind |-> kind, name |-> name, result |-> result, at |-> at]

ScopeInit ==
  /\ scopeKinds \in KindSets
  /\ scopes = <<BuiltinRoot>>
  /\ scopeOp = ScopeOp("new", "", "", Null, 0)
  /\ scopePc = "open"
  /\ OthersIdle("scope")

\* Transformer.block: scope.child(node) and push
ScopeChild ==
  /\ scopePc = "open"
  /\ Len(scopes) < MaxScopes
  /\ \E node \in ScopeNodes :
       /\ scopes' = Append(scopes, NewScope(node, Len(scopes)))
       /\ scopeOp' = ScopeOp("child", "", node, Null, Len(scopes) + 1)
  /\ UNCHANGED <<scopeKinds, scopePc>>
  /\ OthersUnchanged("scope")

\* Transformer.pop at the end of a block: the scope is discarded
ScopePop ==
  /\ scopePc = "open"
  /\ Len(scopes) > 1
  /\ scopes' = SubSeq(scopes, 1, Len(scopes) - 1)
  /\ scopeOp' = ScopeOp("pop", "", "", Null, Len(scopes))
  /\ UNCHANGED <<scopeKinds, scopePc>>
  /\ OthersUnchanged("scope")

\* a declaration: addConst .. addVar on the current scope; the value
\* declared tells the kind and the depth of the declaring scope
ScopeDeclare ==
  /\ scopePc = "open"
  /\ \E kind \in scopeKinds :
       IF ScopeAddError(scopes, kind, "x")
         THEN /\ scopePc' = "error"
              /\ scopeOp' = ScopeOp("add", kind, "x", Null, 0)
              /\ UNCHANGED scopes
         ELSE /\ scopes' = ScopeAdd(scopes, kind, "x", <<kind, Len(scopes) - 1>>)
              /\ scopeOp' = ScopeOp("add", kind, "x", Null, Len(scopes))
              /\ UNCHANGED scopePc
  /\ UNCHANGED scopeKinds
  /\ OthersUnchanged("scope")

\* a use of a name: findConst .. findVar from the current scope
ScopeLookup ==
  /\ scopePc = "open"
  /\ \E kind \in scopeKinds, name \in ScopeNames :
       scopeOp' = ScopeOp("find", kind, name, ScopeFind(scopes, kind, name), 0)
  /\ UNCHANGED <<scopeKinds, scopes, scopePc>>
  /\ OthersUnchanged("scope")

\* Transformer.builtin case 'undefine'
Undefine ==
  /\ scopePc = "open"
  /\ "macro" \in scopeKinds
  /\ \E name \in ScopeNames :
       /\ scopes' = undefMacro(scopes, name)
       /\ scopeOp' = ScopeOp("undefine", "macro", name, Null,
                             undefMacroAt(scopes, Len(scopes), name))
  /\ UNCHANGED <<scopeKinds, scopePc>>
  /\ OthersUnchanged("scope")

\* a call of a helper: scope.dependsOn(name)
ScopeDependsOn ==
  /\ scopePc = "open"
  /\ \E name \in {"__helper", "y"} :
       IF ScopeFind(scopes, "func", name) = Null
         THEN /\ scopePc' = "error"
              /\ scopeOp' = ScopeOp("dependsOn", "func", name, Null, 0)
              /\ UNCHANGED scopes
         ELSE /\ scopes' = chainDependsOn(scopes, name)
              /\ scopeOp' = ScopeOp("dependsOn", "func", name, Null,
                                    findCodeScope(scopes))
              /\ UNCHANGED scopePc
  /\ UNCHANGED scopeKinds
  /\ OthersUnchanged("scope")

\* a string or blob that becomes data: scope.addData(prefix, value)
ScopeAddData ==
  /\ scopePc = "open"
  /\ Len(scopes[findObjectScope(scopes)].data) < MaxData
  /\ scopes' = chainAddData(scopes, "str")
  /\ scopeOp' = ScopeOp("addData", "", "str", Null, findObjectScope(scopes))
  /\ UNCHANGED <<scopeKinds, scopePc>>
  /\ OthersUnchanged("scope")

ScopeNext ==
  \/ ScopeChild
  \/ ScopePop
  \/ ScopeDeclare
  \/ ScopeLookup
  \/ Undefine
  \/ ScopeDependsOn
  \/ ScopeAddData

\* ------------------------------------------------------------------------
\* Properties of the scopes
\* ------------------------------------------------------------------------

\* the scopes of the chain that define the name in the table of the kind
Definers(kind, name) ==
  {i \in 1 .. Len(scopes) : TableHas(scopes[i].tables[kind], name)}

\* whether the current scope has the name in the table of the kind, for a
\* constant or a variable in either of the two tables
DefinedHere(kind, name) ==
  \/ Len(scopes) \in Definers(kind, name)
  \/ kind = "const" /\ Len(scopes) \in Definers("var", name)
  \/ kind = "var" /\ Len(scopes) \in Definers("const", name)

\* C13: each of addConst, addStruct, addMacro, addInterface, addMethod,
\* addEvent, addError and addVar throws exactly when the name is defined in
\* the current scope's table of the kind (for constants and variables in
\* either table) and then leaves every table unchanged; a definition in an
\* ancestor or in a discarded sibling never makes it throw, and an add that
\* does not throw changes the one table of the current scope only.
AddFailsOnRedefinition ==
  [][scopeOp'.op = "add" =>
       /\ scopePc' = "error" <=> DefinedHere(scopeOp'.kind, scopeOp'.name)
       /\ scopePc' = "error" => scopes' = scopes
       /\ scopePc' # "error" =>
            /\ Len(scopes') = Len(scopes)
            /\ \A i \in 1 .. Len(scopes) - 1 : scopes'[i] = scopes[i]
            /\ \A k \in SymbolKinds \ {scopeOp'.kind} :
                 scopes'[Len(scopes)].tables[k] = scopes[Len(scopes)].tables[k]
            /\ scopes'[Len(scopes)].tables[scopeOp'.kind] =
                 scopes[Len(scopes)].tables[scopeOp'.kind]
                   \cup {<<scopeOp'.name, <<scopeOp'.kind, Len(scopes) - 1>>>>}
  ]_vars

\* a block redeclares the name of its parent, and declaring it once more in
\* the same block fails
AddFailsWitness ==
  /\ scopePc = "error"
  /\ scopeOp.op = "add"
  /\ Len(scopes) = 3
  /\ Definers(scopeOp.kind, "x") = {1, 3}

\* a variable fails on the constant of its block
AddVarFailsOnConstWitness ==
  /\ scopePc = "error"
  /\ scopeOp.op = "add"
  /\ scopeOp.kind = "var"
  /\ Len(scopes) \in Definers("const", "x")
  /\ Len(scopes) \notin Definers("var", "x")

\* C14: find<Kind>(name) returns the entry of the innermost scope on the
\* path to the root that defines the name, and null only when no scope on
\* the path defines it.
LookupNearest ==
  scopeOp.op = "find" =>
    LET defs == Definers(scopeOp.kind, scopeOp.name)
    IN IF defs = {} THEN scopeOp.result = Null
       ELSE \E i \in defs :
              /\ \A j \in defs : j <= i
              /\ scopeOp.result = <<scopeOp.kind, i - 1>>
              /\ <<scopeOp.name, scopeOp.result>>
                   \in scopes[i].tables[scopeOp.kind]

\* a lookup from a block whose parent and whose root both define the name
\* returns the parent's entry
LookupNearestWitness ==
  /\ scopeOp.op = "find"
  /\ Len(scopes) = 3
  /\ Definers(scopeOp.kind, scopeOp.name) = {1, 2}
  /\ scopeOp.result = <<scopeOp.kind, 1>>

\* C15 as stated: a statement in a nested scope never changes a symbol
\* table of an ancestor scope; of an ancestor it changes only the
\* dependency set of the enclosing code scope and the data list of the
\* enclosing object scope.  This holds for every statement, undefine(name)
\* included.
AncestorTablesKept ==
  [][scopeOp'.op \notin {"child", "pop"} =>
       \A i \in 1 .. Len(scopes) - 1 :
         /\ scopes'[i].tables = scopes[i].tables
         /\ scopes'[i].depends # scopes[i].depends => i = findCodeScope(scopes)
         /\ scopes'[i].data # scopes[i].data => i = findObjectScope(scopes)
  ]_vars

\* the same of every statement but undefine(name)
AncestorTablesKeptButUndefine ==
  [][scopeOp'.op \notin {"child", "pop", "undefine"} =>
       \A i \in 1 .. Len(scopes) - 1 :
         /\ scopes'[i].tables = scopes[i].tables
         /\ scopes'[i].depends # scopes[i].depends => i = findCodeScope(scopes)
         /\ scopes'[i].data # scopes[i].data => i = findObjectScope(scopes)
  ]_vars

\* undefine(x) in a block has deleted the macro of an ancestor
UndefineInAncestor ==
  /\ scopeOp.op = "undefine"
  /\ scopeOp.at # 0
  /\ scopeOp.at < Len(scopes)
  /\ Definers("macro", scopeOp.name) = {}

\* ------------------------------------------------------------------------
\* The ABI of the contracts
\* ------------------------------------------------------------------------

\* ABI.init: the Error it throws
abiInitError(cs, name) ==
  IF name \in DOMAIN cs THEN "Duplicate contract name" ELSE ""

\* ABI.init
abiInit(cs, name) ==
  [n \in DOMAIN cs \cup {name} |-> IF n = name THEN NoAbi ELSE cs[n]]

\* ABI.add of an object in the scope of the contract block (none: "")
abiAddInError(cs, item, blockName) ==
  IF blockName = "" THEN "" ELSE abiAddError(cs[blockName], item)

abiAddIn(cs, item, blockName) ==
  IF blockName = "" THEN cs ELSE [cs EXCEPT ![blockName] = abiAdd(@, item)]

\* calls of ABI.add
MaxAbiItems == 3

ContractNames == {"A", "B"}

\* an object: a Method, an Event, a VMError or a Constructor, which has no
\* signature and the name of its object block
AbiItem(id, type, name, signature) ==
  [id |-> id, type |-> type, name |-> name, signature |-> signature]

AbiItems(blockName) ==
  {AbiItem(id, type, name, <<signature>>) :
     id \in 1 .. 2, type \in {"function", "event"}, name \in {"f", "g"},
     signature \in 1 .. 2}
  \cup {AbiItem(id, "constructor", blockName, <<>>) : id \in 1 .. 2}

AbiInit ==
  /\ contracts = <<>>
  /\ abiOp = Null
  /\ abiBefore = <<>>
  /\ abiPc = "open"
  /\ OthersIdle("abi")

\* case 'ObjectBlock' of a contract: ABI.init
AbiInitContract ==
  /\ abiPc = "open"
  /\ \E name \in ContractNames :
       /\ abiOp' = [op |-> "init", block |-> name, item |-> Null]
       /\ abiBefore' = contracts
       /\ IF abiInitError(contracts, name) # ""
            THEN abiPc' = "error" /\ UNCHANGED contracts
            ELSE abiPc' = "open" /\ contracts' = abiInit(contracts, name)
  /\ OthersUnchanged("abi")

\* the items of all the contracts
AbiCount(cs) ==
  Cardinality(UNION {{<<n, i>> : i \in cs[n].items} : n \in DOMAIN cs})

\* a definition, an emit or a throw: ABI.add
AbiAdd ==
  /\ abiPc = "open"
  /\ AbiCount(contracts) < MaxAbiItems
  /\ \E blockName \in DOMAIN contracts \cup {""} :
       \E item \in AbiItems(blockName) :
         /\ abiOp' = [op |-> "add", block |-> blockName, item |-> item]
         /\ abiBefore' = contracts
         /\ contracts' = abiAddIn(contracts, item, blockName)
         /\ abiPc' =
              IF abiAddInError(contracts, item, blockName) # ""
                THEN "error"
                ELSE "open"
  /\ OthersUnchanged("abi")

AbiNext == AbiInitContract \/ AbiAdd

\* two objects of one kind with one name
SameName(a, b) == a.type = b.type /\ a.name = b.name

\* two objects of one kind with one selector
SameSelector(a, b) ==
  /\ a.type = b.type
  /\ a.signature # <<>>
  /\ a.signature = b.signature

\* the last call was ABI.add inside a contract
AbiAdded == abiOp # Null /\ abiOp.op = "add" /\ abiOp.block # ""

\* the object of the last call is another object than one of the contract
\* with its name or its selector
AbiCollides ==
  \E other \in abiBefore[abiOp.block].items :
    /\ other # abiOp.item
    /\ SameName(other, abiOp.item) \/ SameSelector(other, abiOp.item)

\* C17: as long as no call has thrown, no two distinct items of a contract
\* have the same kind and name, or the same kind and selector; ABI.add of
\* an object that is in the set of the contract changes nothing and does
\* not throw, and ABI.add of another object with the kind and name, or the
\* kind and selector, of an item of the contract throws.
AbiKeysUnique ==
  /\ abiPc = "open" =>
       \A n \in DOMAIN contracts :
         \A a \in contracts[n].items : \A b \in contracts[n].items :
           a # b => ~SameName(a, b) /\ ~SameSelector(a, b)
  /\ AbiAdded /\ abiOp.item \in abiBefore[abiOp.block].items =>
       contracts = abiBefore /\ abiPc = "open"
  /\ AbiAdded /\ abiOp.item \notin abiBefore[abiOp.block].items
       /\ AbiCollides => abiPc = "error"

\* a contract of two items, the second added twice, and an object with the
\* selector of the first and another name thrown out after that
AbiKeysWitness ==
  /\ abiPc = "error"
  /\ AbiAdded
  /\ Cardinality(abiBefore[abiOp.block].items) = 2
  /\ \E other \in abiBefore[abiOp.block].items :
       SameSelector(other, abiOp.item) /\ ~SameName(other, abiOp.item)

\* an object of the set has been added again
AbiAddedAgain ==
  /\ AbiAdded
  /\ abiOp.item \in abiBefore[abiOp.block].items
  /\ contracts = abiBefore

\* ------------------------------------------------------------------------
\* NoInline and FunctionConstant
\* ------------------------------------------------------------------------

\* HexLiteral
HexLiteral(digits) ==
  [type |-> "Literal", subtype |-> "HexLiteral", value |-> digits]

\* verbatim_0i_1o(hex"38")
CodeSizeAsm == Call("verbatim_0i_1o", <<HexLiteral(<<3, 8>>)>>)

\* verbatim_1i_0o(hex"50", expr)
PopAsm(expr) == Call("verbatim_1i_0o", <<HexLiteral(<<5, 0>>), expr>>)

\* an Assignment to a list of variables
Assignment(lhs, rhs) ==
  [type |-> "Assignment", subtype |-> "", value |-> lhs, args |-> <<rhs>>]

\* the variables of the left-hand side of an Assignment
lhsItems(stmt) == IF stmt.subtype = "" THEN stmt.value ELSE <<stmt.subtype>>

Leave == [type |-> "Leave"]

BreakContinue(value) == [type |-> "BreakContinue", value |-> value]

ForLoop(init, test, update, blk) ==
  [type |-> "ForLoop", init |-> init, test |-> test, update |-> update,
   block |-> blk]

\* a FunctionDefinition with its parameters and return variables
TypedFunction(name, params, returns, blk) ==
  [type |-> "FunctionDefinition", name |-> name, params |-> params,
   returns |-> returns, block |-> blk, builtin |-> FALSE]

\* the identifiers of a list
Identifiers(names) == [i \in 1 .. Len(names) |-> Identifier(names[i])]

\* traverse: the nodes in the order they are yielded
RECURSIVE traverse(_)
RECURSIVE traverseAll(_)
traverse(node) ==
  CASE node.type = "Block" ->
         <<node>> \o traverseAll(node.body) \o <<[type |-> "BlockEnd"]>>
    [] node.type = "FunctionDefinition" ->
         <<node, Identifier(node.name), [type |-> "TypedIdentifierList"]>>
         \o Identifiers(node.params)
         \o <<[type |-> "TypedIdentifierList"]>>
         \o Identifiers(node.returns)
         \o traverse(node.block) \o <<[type |-> "FunctionEnd"]>>
    [] node.type = "Assignment" ->
         <<node, [type |-> "IdentifierList"]>>
         \o Identifiers(lhsItems(node)) \o traverse(node.args[1])
    [] node.type = "VariableDeclaration" ->
         <<node, [type |-> "TypedIdentifierList"], Identifier(node.subtype)>>
         \o traverse(node.args[1])
    [] node.type = "If" ->
         <<node>> \o traverse(node.expr) \o traverse(node.block)
    [] node.type = "Switch" ->
         <<node>> \o traverse(node.expr) \o traverseAll(node.cases)
         \o (IF node.def = Null THEN <<>> ELSE traverse(node.def))
    [] node.type = "Case" ->
         <<node>> \o traverse(node.value) \o traverse(node.block)
    [] node.type = "Default" -> <<node>> \o traverse(node.block)
    [] node.type = "ForLoop" ->
         <<node>> \o traverse(node.init) \o traverse(node.test)
         \o traverse(node.update) \o traverse(node.block)
    [] node.type = "FunctionCall" ->
         <<node, Identifier(node.subtype)>> \o traverseAll(node.args)
    [] OTHER -> <<node>>

traverseAll(nodes) ==
  IF nodes = <<>> THEN <<>>
  ELSE traverse(Head(nodes)) \o traverseAll(Tail(nodes))

\* codeSize on the nodes from the i-th, with the literals counted so far
RECURSIVE codeSizeFrom(_, _, _)
codeSizeFrom(nodes, i, ignore) ==
  IF i > Len(nodes) THEN 0
  ELSE LET node == nodes[i]
           fresh ==
             /\ node.type = "Literal"
             /\ isLiteral(node)
             /\ toBigInt(node) # 0
             /\ toBigInt(node) \notin ignore
           cost ==
             CASE node.type = "FunctionDefinition" -> 1
               [] node.type = "If" -> 2
               [] node.type = "Switch" ->
                    1 + 2 * Len(node.cases) + (IF node.def = Null THEN 0 ELSE 2)
               [] node.type = "ForLoop" -> 3
               [] node.type = "BreakContinue" -> 2
               [] node.type = "Leave" -> 2
               [] node.type = "FunctionCall" -> 1
               [] node.type = "Literal" ->
                    IF isLiteral(node) THEN (IF fresh THEN 1 ELSE 0) ELSE 1
               [] OTHER -> 0
       IN cost + codeSizeFrom(nodes, i + 1,
                              IF fresh THEN ignore \cup {toBigInt(node)}
                              ELSE ignore)

codeSize(node) == codeSizeFrom(traverse(node), 1, {})

\* no function counts as an inlinable expression
isInlinableNever(func) == FALSE

isInlinableExpression(func) ==
  IF Len(func.returns) # 1 THEN FALSE
  ELSE IF Len(func.block.body) # 1 THEN FALSE
  ELSE LET stmt == func.block.body[1]
       IN IF stmt.type # "Assignment" THEN FALSE
          ELSE IF Len(lhsItems(stmt)) # 1 THEN FALSE
          ELSE lhsItems(stmt)[1] = func.returns[1]

\* the calls nested in an expression
MaxOps == 16

RECURSIVE Nest(_)
Nest(k) == IF k = 0 THEN Identifier("x") ELSE Call("not", <<Nest(k - 1)>>)

PadExprs ==
  {Nest(k) : k \in 0 .. MaxOps}
  \cup {LiteralNumber(0), LiteralNumber(1),
        Call("add", <<LiteralNumber(1), LiteralNumber(1)>>),
        Call("add", <<LiteralNumber(1), LiteralNumber(2)>>)}

\* the statements that end a body
PadTails ==
  {Leave,
   If(Identifier("x"), Block(<<Leave>>)),
   Call("pop", <<Call("add", <<LiteralNumber(1), LiteralNumber(2)>>)>>)}

PadStatements ==
  {Assign("r", e) : e \in PadExprs}
  \cup PadTails
  \cup {Assign("x", LiteralNumber(1)),
        Assignment(<<"r", "s">>, Call("pair", <<>>)),
        Let(Identifier("v"), LiteralNumber(1)),
        Switch(Identifier("x"),
               <<Case(LiteralNumber(1), Block(<<>>))>>,
               Default(Block(<<Assign("r", LiteralNumber(1))>>))),
        Switch(Identifier("x"), <<Case(LiteralNumber(1), Block(<<>>))>>,
               Null),
        ForLoop(Block(<<>>), Identifier("x"), Block(<<>>),
                Block(<<BreakContinue("break")>>)),
        TypedFunction("g", <<>>, <<>>, Block(<<>>))}

PadBodies ==
  {<<>>} \cup {<<s>> : s \in PadStatements}
  \cup {<<s, t>> : s \in PadStatements, t \in PadTails}

PadFunctions ==
  {TypedFunction("f", params, returns, Block(stmts)) :
     params \in {<<>>, <<"x">>}, returns \in {<<>>, <<"r">>, <<"r", "s">>},
     stmts \in PadBodies}

\* the arguments of NoInline and of FunctionConstant
PadInputs ==
  {[kind |-> "NoInline", func |-> func, memguard |-> memguard] :
     func \in PadFunctions, memguard \in BOOLEAN}
  \cup {[kind |-> "FunctionConstant", name |-> "__const_c_0",
         expr |-> expr, memguard |-> memguard] :
          expr \in PadExprs, memguard \in BOOLEAN}

PadInit ==
  /\ padInput \in PadInputs
  /\ padNeeds = 0
  /\ padSize = 0
  /\ padBody = <<>>
  /\ padOut = Null
  /\ padPc = "ready"
  /\ OthersIdle("pad")

pad == PopAsm(CodeSizeAsm)

\* NoInline up to its loop
NoInlineEnter ==
  /\ padPc = "ready"
  /\ padInput.kind = "NoInline"
  /\ LET func == padInput.func
     IN /\ padNeeds' =
             IF Len(func.params) = 0
               THEN (IF padInput.memguard THEN 8 ELSE 6)
               ELSE (IF padInput.memguard THEN 16 ELSE 12)
        /\ IF isInlinableExpression(func)
             THEN padBody' = <<pad>> /\ padSize' = codeSize(func.block) + 4
             ELSE padBody' = <<>> /\ padSize' = codeSize(func.block)
  /\ padPc' = "loop"
  /\ UNCHANGED <<padInput, padOut>>
  /\ OthersUnchanged("pad")

\* FunctionConstant up to its loop
FunctionConstantEnter ==
  /\ padPc = "ready"
  /\ padInput.kind = "FunctionConstant"
  /\ padNeeds' = IF padInput.memguard THEN 8 ELSE 6
  /\ padBody' = <<pad>>
  /\ padSize' = 4 + codeSize(padInput.expr)
  /\ padPc' = "loop"
  /\ UNCHANGED <<padInput, padOut>>
  /\ OthersUnchanged("pad")

\* one turn of while (size < needs)
PadLoop ==
  /\ padPc = "loop"
  /\ padSize < padNeeds
  /\ padBody' = Append(padBody, pad)
  /\ padSize' = padSize + 4
  /\ UNCHANGED <<padInput, padNeeds, padOut, padPc>>
  /\ OthersUnchanged("pad")

\* NoInline after its loop
NoInlineReturn ==
  /\ padPc = "loop"
  /\ ~(padSize < padNeeds)
  /\ padInput.kind = "NoInline"
  /\ padOut' =
       IF Len(padBody) = 0 THEN padInput.func
       ELSE TypedFunction(padInput.func.name, padInput.func.params,
                          padInput.func.returns,
                          Block(padBody \o padInput.func.block.body))
  /\ padPc' = "done"
  /\ UNCHANGED <<padInput, padNeeds, padSize, padBody>>
  /\ OthersUnchanged("pad")

\* FunctionConstant after its loop
FunctionConstantReturn ==
  /\ padPc = "loop"
  /\ ~(padSize < padNeeds)
  /\ padInput.kind = "FunctionConstant"
  /\ padOut' =
       TypedFunction(padInput.name, <<>>, <<"__ret">>,
                     Block(Append(padBody, Assign("__ret", padInput.expr))))
  /\ padPc' = "done"
  /\ UNCHANGED <<padInput, padNeeds, padSize, padBody>>
  /\ OthersUnchanged("pad")

PadNext ==
  \/ NoInlineEnter
  \/ FunctionConstantEnter
  \/ PadLoop
  \/ NoInlineReturn
  \/ FunctionConstantReturn

\* the threshold of a function
Threshold(func, memguard) ==
  IF Len(func.params) = 0
    THEN (IF memguard THEN 8 ELSE 6)
    ELSE (IF memguard THEN 16 ELSE 12)

\* the body of the function is one assignment to its only return variable
SingleAssignment(func) ==
  /\ Len(func.returns) = 1
  /\ Len(func.block.body) = 1
  /\ func.block.body[1].type = "Assignment"
  /\ lhsItems(func.block.body[1]) = func.returns

\* the function returned is measured at its threshold or more, and starts
\* with a pad when it went in as a single assignment to its return variable
PaddedAtReturn ==
  padPc = "done" =>
    /\ codeSize(padOut.block) >= Threshold(padOut, padInput.memguard)
    /\ padInput.kind = "NoInline" /\ SingleAssignment(padInput.func) =>
         /\ padOut.block.body[1] = pad
         /\ Len(padOut.block.body) > Len(padInput.func.block.body)

\* C18: every function NoInline or FunctionConstant returns has a codeSize
\* of its body of at least 6 without parameters and 12 with parameters (8
\* and 16 with memguard), a function whose body is a single assignment to
\* its only return variable gets a pad, and the loop comes to its end.
Padded == []PaddedAtReturn /\ <>(padPc = "done")

\* a single assignment that is large enough without a pad has got one
PaddedWitness ==
  /\ padPc = "done"
  /\ padInput.kind = "NoInline"
  /\ SingleAssignment(padInput.func)
  /\ codeSize(padInput.func.block) >= Threshold(padOut, padInput.memguard)
  /\ padOut.block.body[1] = pad
  /\ Len(padOut.block.body) = 2

\* a function of one parameter has got four pads with memguard
PaddedFourTimes ==
  /\ padPc = "done"
  /\ padInput.kind = "NoInline"
  /\ Len(padInput.func.params) = 1
  /\ Len(padBody) = 4

\* ------------------------------------------------------------------------
\* stripComments
\* ------------------------------------------------------------------------
\* The Map of the documentation comments, which no character of the output
\* depends on, is not part of the state.

\* the states of stripComments
NONE == 0

SLASH == 1

LINE == 2

MULTI == 3

STAR == 4

QUOTE == 5

BACK == 6

\* a step of the switch: the next state, the characters added to the output
\* as offsets from i, and whether it throws
Step(state, offsets) == [state |-> state, offsets |-> offsets, throws |-> FALSE]

caseNone(ch) ==
  IF ch = "/" THEN Step(SLASH, <<>>)
  ELSE IF ch = "\"" THEN Step(QUOTE, <<0>>)
  ELSE Step(NONE, <<0>>)

\* -1 is the slash that was held back
caseSlash(ch) ==
  IF ch = "/" THEN Step(LINE, <<>>)
  ELSE IF ch = "*" THEN Step(MULTI, <<>>)
  ELSE Step(NONE, <<-1, 0>>)

caseLine(ch) ==
  IF ch = "\n" THEN Step(NONE, <<0>>) ELSE Step(LINE, <<>>)

\* a block comment that keeps none of its line feeds
caseMultiJoined(ch) ==
  IF ch = "*" THEN Step(STAR, <<>>) ELSE Step(MULTI, <<>>)

caseMulti(ch) ==
  IF ch = "*" THEN Step(STAR, <<>>)
  ELSE IF ch = "\n" THEN Step(MULTI, <<0>>)
  ELSE Step(MULTI, <<>>)

caseStar(ch) ==
  IF ch = "/" THEN Step(NONE, <<>>)
  ELSE IF ch = "\n" THEN Step(MULTI, <<0>>)
  ELSE Step(MULTI, <<>>)

caseQuote(ch) ==
  IF ch = "\"" THEN Step(NONE, <<0>>)
  ELSE IF ch = "\n" THEN [Step(QUOTE, <<>>) EXCEPT !.throws = TRUE]
  ELSE IF ch = "\\" THEN Step(BACK, <<0>>)
  ELSE Step(QUOTE, <<0>>)

caseBack(ch) == Step(QUOTE, <<0>>)

\* the characters of an input
MaxInput == 5

Chars == {"/", "*", "\"", "\\", "\n", "\r", "a"}

StripInputs == UNION {[1 .. n -> Chars] : n \in 0 .. MaxInput}

\* the index of the last character before i that is not a carriage return
RECURSIVE Held(_, _)
Held(input, i) ==
  IF input[i - 1] = "\r" THEN Held(input, i - 1) ELSE i - 1

StripInit ==
  /\ stripInput \in StripInputs
  /\ stripIndex = 1
  /\ stripState = NONE
  /\ stripOutput = <<>>
  /\ stripFrom = <<>>
  /\ stripPc = "loop"
  /\ OthersIdle("strip")

\* switch (state) on one character
StripStep(state, ch) ==
  CASE state = NONE -> caseNone(ch)
    [] state = SLASH -> caseSlash(ch)
    [] state = LINE -> caseLine(ch)
    [] state = MULTI -> caseMulti(ch)
    [] state = STAR -> caseStar(ch)
    [] state = QUOTE -> caseQuote(ch)
    [] OTHER -> caseBack(ch)

\* one turn of the loop over the input
StripChar ==
  /\ stripPc = "loop"
  /\ stripIndex <= Len(stripInput)
  /\ LET ch == stripInput[stripIndex]
         step == StripStep(stripState, ch)
         from ==
           [k \in 1 .. Len(step.offsets) |->
              IF step.offsets[k] = 0 THEN stripIndex
              ELSE Held(stripInput, stripIndex)]
     IN IF ch = "\r"
          THEN /\ stripIndex' = stripIndex + 1
               /\ UNCHANGED <<stripState, stripOutput, stripFrom, stripPc>>
        ELSE IF step.throws
          THEN /\ stripPc' = "error"
               /\ UNCHANGED <<stripIndex, stripState, stripOutput, stripFrom>>
        ELSE /\ stripState' = step.state
             /\ stripOutput' =
                  stripOutput
                  \o [k \in 1 .. Len(from) |->
                        IF step.offsets[k] = 0 THEN ch ELSE "/"]
             /\ stripFrom' = stripFrom \o from
             /\ stripIndex' = stripIndex + 1
             /\ UNCHANGED stripPc
  /\ UNCHANGED stripInput
  /\ OthersUnchanged("strip")

\* the end of the input
StripReturn ==
  /\ stripPc = "loop"
  /\ stripIndex > Len(stripInput)
  /\ stripPc' = "done"
  /\ UNCHANGED <<stripInput, stripIndex, stripState, stripOutput, stripFrom>>
  /\ OthersUnchanged("strip")

StripNext == StripChar \/ StripReturn

\* the line feeds of the first n characters
LineFeeds(text, n) == Cardinality({k \in 1 .. n : text[k] = "\n"})

\* C19: when stripComments returns, the output has as many line feeds as
\* the input, and every character of the output is a character of the
\* input with as many line feeds before it in the output as in the input.
LinesKept ==
  stripPc = "done" =>
    /\ LineFeeds(stripOutput, Len(stripOutput))
         = LineFeeds(stripInput, Len(stripInput))
    /\ \A k \in 1 .. Len(stripOutput) :
         /\ stripOutput[k] = stripInput[stripFrom[k]]
         /\ LineFeeds(stripOutput, k - 1)
              = LineFeeds(stripInput, stripFrom[k] - 1)

\* a block comment over two lines between two characters that are kept
LinesKeptWitness ==
  /\ stripPc = "done"
  /\ stripInput = <<"/", "*", "\n", "*", "/">>
  /\ stripOutput = <<"\n">>

\* an escaped line feed in a string
LinesKeptInString ==
  /\ stripPc = "done"
  /\ stripInput = <<"\"", "\\", "\n", "\"">>
  /\ stripOutput = stripInput

\* a line comment, and a slash held back over a carriage return
LinesKeptAfterSlash ==
  /\ stripPc = "done"
  /\ stripInput = <<"/", "\r", "\n", "/", "/">>
  /\ stripOutput = <<"/", "\n">>
  /\ stripFrom = <<1, 3>>

\* ------------------------------------------------------------------------
\* The number literals of the parser
\* ------------------------------------------------------------------------
\* The parser compares the length of a literal with the lengths of 2^256 - 1
\* in hexadecimal (64) and in decimal (78), and a negative decimal of 78
\* characters has the 77 digits of 2^255. The word of the literals is scaled
\* to a width at which the same holds: 2^LiteralBits - 1 has one decimal
\* digit more than 2^(LiteralBits - 1).

LiteralBits == 4

\* U256_MAX and I256_SIGN of the scaled word
LiteralMax == Pow2(LiteralBits) - 1

LiteralSign == Pow2(LiteralBits - 1)

\* 64: the hexadecimal digits of a word
HexDigits == LiteralBits \div 4

\* 78: the decimal digits of the largest word
DecimalDigits == Len(ToDigits(LiteralMax, 10))

\* the text a number pattern has matched: its sign, its prefix, its digits
NumberText(negative, hex, digits) ==
  [negative |-> negative, hex |-> hex, digits |-> digits]

\* value.length
TextLength(text) ==
  (IF text.negative THEN 1 ELSE 0) + (IF text.hex THEN 2 ELSE 0)
  + Len(text.digits)

\* BigInt(string) throws a SyntaxError on a sign before a prefix: the
\* grammar of a string to convert has a sign on decimal digits only
BigIntThrows(text) == text.negative /\ text.hex

BigIntOf(text) ==
  LET magnitude == FromDigits(text.digits, IF text.hex THEN 16 ELSE 10)
  IN IF text.negative THEN -magnitude ELSE magnitude

\* BigInt(value) & U256_MAX as '0x' + value.toString(16)
Materialise(n) == HexNumber(ToDigits(n % Pow2(LiteralBits), 16))

Accept(node) == [ok |-> TRUE, node |-> node, error |-> ""]

Reject(message) == [ok |-> FALSE, node |-> Null, error |-> message]

\* Parser.HexNumber
ParseHexNumber(text) ==
  IF ~(TextLength(text) <= (IF text.negative THEN 1 ELSE 0) + 2 + HexDigits)
    THEN Reject("Parse error")
  ELSE IF TextLength(text) = 1 + 2 + HexDigits /\ BigIntThrows(text)
    THEN Reject("Cannot convert to a BigInt")
  ELSE IF /\ TextLength(text) = 1 + 2 + HexDigits
          /\ ~(BigIntOf(text) >= -LiteralSign)
    THEN Reject("Parse error")
  ELSE IF text.negative
    THEN IF BigIntThrows(text) THEN Reject("Cannot convert to a BigInt")
         ELSE Accept(Materialise(BigIntOf(text)))
  ELSE Accept(HexNumber(text.digits))

\* a decimal parser that checks the length only
ParseDecimalNumberByLength(text) ==
  IF ~(TextLength(text) <= DecimalDigits) THEN Reject("Parse error")
  ELSE IF text.negative THEN Accept(Materialise(BigIntOf(text)))
  ELSE Accept(DecimalNumber(text.digits))

\* Parser.DecimalNumber
ParseDecimalNumber(text) ==
  IF ~(TextLength(text) <= DecimalDigits) THEN Reject("Parse error")
  ELSE IF /\ TextLength(text) = DecimalDigits
          /\ ~(BigIntOf(text) >= -LiteralSign /\ BigIntOf(text) <= LiteralMax)
    THEN Reject("Parse error")
  ELSE IF text.negative THEN Accept(Materialise(BigIntOf(text)))
  ELSE Accept(DecimalNumber(text.digits))

\* the digit strings of up to n digits
DigitStrings(radix, n) == UNION {[1 .. k -> 0 .. radix - 1] : k \in 1 .. n}

\* the literals of one digit more than the longest that is accepted
NumberTexts ==
  {NumberText(negative, TRUE, digits) :
     negative \in BOOLEAN, digits \in DigitStrings(16, HexDigits + 1)}
  \cup {NumberText(negative, FALSE, digits) :
          negative \in BOOLEAN, digits \in DigitStrings(10, DecimalDigits + 1)}

NumberInit ==
  /\ numberText \in NumberTexts
  /\ numberNode = Null
  /\ numberError = ""
  /\ numberPc = "ready"
  /\ OthersIdle("number")

\* Parser.NumberLiteral on a text of the pattern of HexNumber
HexNumberLiteral ==
  /\ numberPc = "ready"
  /\ numberText.hex
  /\ LET r == ParseHexNumber(numberText)
     IN /\ numberNode' = r.node
        /\ numberError' = r.error
        /\ numberPc' = IF r.ok THEN "done" ELSE "error"
  /\ UNCHANGED numberText
  /\ OthersUnchanged("number")

\* Parser.NumberLiteral on a text of the pattern of DecimalNumber
DecimalNumberLiteral ==
  /\ numberPc = "ready"
  /\ ~numberText.hex
  /\ LET r == ParseDecimalNumber(numberText)
     IN /\ numberNode' = r.node
        /\ numberError' = r.error
        /\ numberPc' = IF r.ok THEN "done" ELSE "error"
  /\ UNCHANGED numberText
  /\ OthersUnchanged("number")

NumberNext == HexNumberLiteral \/ DecimalNumberLiteral

\* the number behind the sign of the text
Magnitude(text) == FromDigits(text.digits, IF text.hex THEN 16 ELSE 10)

\* an accepted literal is a word, and that of a negative literal -m is
\* 2^LiteralBits - m (0 for -0), where m is at most 2^(LiteralBits - 1)
AcceptedInRange ==
  numberPc = "done" =>
    /\ toBigInt(numberNode) \in 0 .. LiteralMax
    /\ numberText.negative =>
         /\ Magnitude(numberText) <= LiteralSign
         /\ toBigInt(numberNode)
              = (Pow2(LiteralBits) - Magnitude(numberText)) % Pow2(LiteralBits)
    /\ ~numberText.negative => toBigInt(numberNode) = Magnitude(numberText)

DecimalOfWordLengthAccepted ==
  /\ numberPc = "done"
  /\ numberText = NumberText(FALSE, FALSE, ToDigits(LiteralMax, 10))
  /\ Len(numberText.digits) = DecimalDigits

\* -0x1 is thrown out by BigInt
NegativeHexThrown ==
  /\ numberPc = "error"
  /\ numberText = NumberText(TRUE, TRUE, <<1>>)
  /\ numberError = "Cannot convert to a BigInt"

\* ------------------------------------------------------------------------
\* pretty
\* ------------------------------------------------------------------------
\* A string is the sequence of its characters; a parameter is given as the
\* string String(param) makes of it.

\* ch.repeat(n)
Repeat(ch, n) == [k \in 1 .. n |-> ch]

\* items.join(sep)
RECURSIVE Join(_, _)
Join(items, sep) ==
  IF items = <<>> THEN <<>>
  ELSE IF Len(items) = 1 THEN items[1]
  ELSE items[1] \o sep \o Join(Tail(items), sep)

\* the sum of str.length + 2 over the parameters
RECURSIVE prettySize(_)
prettySize(params) ==
  IF params = <<>> THEN 0
  ELSE Len(Head(params)) + 2 + prettySize(Tail(params))

pretty(prefix, params) ==
  LET width == Len(prefix) + 2 + prettySize(params)
      indent == Repeat(" ", Len(prefix) + 1)
  IN IF width <= 77 \/ Len(params) = 0
       THEN prefix \o <<"(">> \o Join(params, <<",", " ">>) \o <<")">>
       ELSE prefix \o <<"(">> \o Join(params, <<",", "\n">> \o indent)
            \o <<")">>

\* the parameters of a list, and the lengths of the strings
MaxPrettyParams == 3

MaxPrettyLength == 32

PrettyLengths == {1} \cup 20 .. MaxPrettyLength

PrettyPrefixes == {Repeat("f", 10), Repeat("f", 50)}

PrettyLists ==
  UNION {[1 .. n -> {Repeat("a", k) : k \in PrettyLengths}] :
           n \in 0 .. MaxPrettyParams}

PrettyInit ==
  /\ prettyPrefix \in PrettyPrefixes
  /\ prettyParams \in PrettyLists
  /\ prettyOut = <<>>
  /\ prettyPc = "ready"
  /\ OthersIdle("pretty")

Pretty ==
  /\ prettyPc = "ready"
  /\ prettyOut' = pretty(prettyPrefix, prettyParams)
  /\ prettyPc' = "done"
  /\ UNCHANGED <<prettyPrefix, prettyParams>>
  /\ OthersUnchanged("pretty")

\* prefix(arg1, arg2, ...) on one line
SingleLine ==
  prettyPrefix \o <<"(">> \o Join(prettyParams, <<",", " ">>) \o <<")">>

\* the string returned is on several lines
Wrapped == \E k \in 1 .. Len(prettyOut) : prettyOut[k] = "\n"

\* C21: the string pretty returns is on several lines if and only if
\* prefix(arg1, arg2, ...) on one line is longer than 77 characters, and
\* never when there is no argument.
WrapsOver77 ==
  prettyPc = "done" =>
    /\ Wrapped <=> Len(SingleLine) > 77
    /\ prettyParams = <<>> => ~Wrapped

\* a list of two arguments that is 76 characters long on one line is
\* returned on two lines
WrapsAt76 ==
  /\ prettyPc = "done"
  /\ Len(prettyParams) = 2
  /\ Len(SingleLine) = 76
  /\ Wrapped

\* what the code does: the list is wrapped if and only if it has two
\* arguments or more and is longer than 75 characters on one line
WrapsOver75 ==
  prettyPc = "done" =>
    (Wrapped <=> Len(prettyParams) >= 2 /\ Len(SingleLine) > 75)

\* ------------------------------------------------------------------------
\* parse and serialize on struct definitions
\* ------------------------------------------------------------------------
\* A text is the sequence of its tokens; the text of a number is kept as
\* its prefix and its digits, that of a word as a string.

Token(kind, text, digits) == [kind |-> kind, text |-> text, digits |-> digits]

Word(text) == Token("word", text, <<>>)

Punctuation(text) == Token("punctuation", text, <<>>)

\* the text of a Literal node, and Parser.Literal on it
LiteralToken(node) ==
  IF node.subtype = "BoolLiteral"
    THEN Word(IF node.value = <<1>> THEN "true" ELSE "false")
    ELSE Token(node.subtype, "", node.value)

ParseLiteral(token) ==
  IF token.kind = "HexNumber" THEN HexNumber(token.digits)
  ELSE IF token.kind = "DecimalNumber" THEN DecimalNumber(token.digits)
  ELSE IF token.text = "true" THEN BoolLiteral(1)
  ELSE IF token.text = "false" THEN BoolLiteral(0)
  ELSE Identifier(token.text)

StructMemberNode(kind, name, value) ==
  [type |-> "StructMember", kind |-> kind, name |-> name, value |-> value]

\* Parser.StructMember at the i-th token: the node and the next index
ParseStructMember(tokens, i) ==
  LET kind == Identifier(tokens[i].text)
  IN IF tokens[i + 1] = Punctuation("+")
       THEN [node |-> StructMemberNode(kind, Identifier("+"), LiteralNumber(0)),
             next |-> i + 2]
     ELSE IF tokens[i + 2] = Punctuation(":=")
       THEN [node |->
               StructMemberNode(kind, Identifier(tokens[i + 1].text),
                                ParseLiteral(tokens[i + 3])),
             next |-> i + 4]
     ELSE [node |->
             StructMemberNode(kind, Identifier(tokens[i + 1].text),
                              LiteralNumber(0)),
           next |-> i + 2]

\* the members up to the closing brace
RECURSIVE ParseStructMembers(_, _)
ParseStructMembers(tokens, i) ==
  IF tokens[i] = Punctuation("}") THEN <<>>
  ELSE LET member == ParseStructMember(tokens, i)
       IN <<member.node>> \o ParseStructMembers(tokens, member.next)

\* Parser.StructDefinition: struct Name { members }
ParseStructDefinition(tokens) ==
  LET members == ParseStructMembers(tokens, 4)
  IN IF Len(members) = 0 THEN [ok |-> FALSE, node |-> Null]
     ELSE [ok |-> TRUE,
           node |-> [type |-> "StructDefinition",
                     name |-> Identifier(tokens[2].text),
                     members |-> members]]

\* Serializer.encode case 'StructMember'
encodeStructMember(node) ==
  <<Word(node.kind.subtype),
    IF node.name.subtype = "+" THEN Punctuation("+")
    ELSE Word(node.name.subtype)>>
  \o (IF ~isZero(node.value)
        THEN <<Punctuation(":="),
               IF node.value.type = "Literal" THEN LiteralToken(node.value)
               ELSE Word(node.value.subtype)>>
        ELSE <<>>)

RECURSIVE encodeStructMembers(_)
encodeStructMembers(members) ==
  IF members = <<>> THEN <<>>
  ELSE encodeStructMember(Head(members)) \o encodeStructMembers(Tail(members))

\* Serializer.encode case 'StructDefinition'
encodeStructDefinition(node) ==
  <<Word("struct"), Word(node.name.subtype), Punctuation("{")>>
  \o encodeStructMembers(node.members) \o <<Punctuation("}")>>

\* the members of a source text
MaxSourceMembers == 2

\* the defaults written in a source text: zero and one in the three forms of
\* a number, and a constant
SourceDefaults ==
  {Token("DecimalNumber", "", <<0>>), Token("DecimalNumber", "", <<0, 0>>),
   Token("DecimalNumber", "", <<1>>), Token("HexNumber", "", <<0>>),
   Token("HexNumber", "", <<0, 0>>), Token("HexNumber", "", <<0, 1>>),
   Word("false"), Word("true"), Word("LIMIT")}

SourceMembers ==
  {<<Word(kind), Punctuation("+")>> : kind \in {"uint8", "bool"}}
  \cup {<<Word(kind), Word("a")>> : kind \in {"uint8", "bool"}}
  \cup {<<Word(kind), Word("a"), Punctuation(":="), value>> :
          kind \in {"uint8", "bool"}, value \in SourceDefaults}

RECURSIVE Flatten(_)
Flatten(lists) ==
  IF lists = <<>> THEN <<>> ELSE Head(lists) \o Flatten(Tail(lists))

SourceTexts ==
  {<<Word("struct"), Word("S"), Punctuation("{")>> \o Flatten(members)
     \o <<Punctuation("}")>> :
     members \in UNION {[1 .. n -> SourceMembers] : n \in 0 .. MaxSourceMembers}}

RoundInit ==
  /\ sourceText \in SourceTexts
  /\ firstAst = Null
  /\ serialized = <<>>
  /\ secondAst = Null
  /\ roundPc = "ready"
  /\ OthersIdle("round")

\* parse(input)
Parse ==
  /\ roundPc = "ready"
  /\ LET r == ParseStructDefinition(sourceText)
     IN /\ firstAst' = r.node
        /\ roundPc' = IF r.ok THEN "parsed" ELSE "error"
  /\ UNCHANGED <<sourceText, serialized, secondAst>>
  /\ OthersUnchanged("round")

\* serialize(root)
Serialize ==
  /\ roundPc = "parsed"
  /\ serialized' = encodeStructDefinition(firstAst)
  /\ roundPc' = "serialized"
  /\ UNCHANGED <<sourceText, firstAst, secondAst>>
  /\ OthersUnchanged("round")

\* parse(serialize(root))
ParseAgain ==
  /\ roundPc = "serialized"
  /\ LET r == ParseStructDefinition(serialized)
     IN /\ secondAst' = r.node
        /\ roundPc' = IF r.ok THEN "done" ELSE "error"
  /\ UNCHANGED <<sourceText, firstAst, serialized>>
  /\ OthersUnchanged("round")

RoundNext == Parse \/ Serialize \/ ParseAgain

\* C22: the AST parsed from the serialization of the AST of an accepted
\* source text is equal to that AST.
RoundTrip == roundPc = "done" => secondAst = firstAst

\* struct S { uint8 a := 0x0 } comes back with the default 0
RoundTripLosesDefault ==
  /\ roundPc = "done"
  /\ sourceText =
       <<Word("struct"), Word("S"), Punctuation("{"), Word("uint8"),
         Word("a"), Punctuation(":="), Token("HexNumber", "", <<0>>),
         Punctuation("}")>>
  /\ firstAst.members[1].value = HexNumber(<<0>>)
  /\ secondAst.members[1].value = DecimalNumber(<<0>>)

\* the values of the members are the same words after the round trip
RoundTripValues ==
  roundPc = "done" =>
    /\ Len(secondAst.members) = Len(firstAst.members)
    /\ \A i \in 1 .. Len(firstAst.members) :
         /\ secondAst.members[i].kind = firstAst.members[i].kind
         /\ secondAst.members[i].name = firstAst.members[i].name
         /\ \/ secondAst.members[i].value = firstAst.members[i].value
            \/ /\ isZero(firstAst.members[i].value)
               /\ secondAst.members[i].value = LiteralNumber(0)

\* ------------------------------------------------------------------------
\* The folder applied to arguments that are not all literals
\* ------------------------------------------------------------------------

\* the arguments that are known at run time only
RuntimeArguments == {Identifier("x"), Identifier("y")}

\* the literals of the neutral elements and of the boundaries
RewriteLiterals ==
  UNION {LiteralsOf(v) : v \in {0, 1, 2, I256_SIGN, U256_MAX - 1, U256_MAX}}

\* lt(x, L) and gt(x, L)
Comparisons ==
  {Call(name, <<Identifier("x"), n>>) :
     name \in {"lt", "gt"}, n \in RewriteLiterals}

\* the argument lists with an argument that is not a literal
RewriteLists(name) ==
  CASE Arity(name) = 1 ->
         {<<a>> : a \in Comparisons \cup {Identifier("x")}}
    [] Arity(name) = 2 ->
         {<<Identifier("x"), b>> : b \in RewriteLiterals \cup {Identifier("y")}}
         \cup {<<a, Identifier("x")>> : a \in RewriteLiterals}
    [] OTHER ->
         {<<a, b, c>> :
            a \in {Identifier("x"), LiteralNumber(0), LiteralNumber(1)},
            b \in {Identifier("y"), LiteralNumber(0), LiteralNumber(1)},
            c \in {Identifier("x"), LiteralNumber(0), LiteralNumber(1),
                   LiteralNumber(2)}}
         \ {<<a, b, c>> :
              a \in {LiteralNumber(0), LiteralNumber(1)},
              b \in {LiteralNumber(0), LiteralNumber(1)},
              c \in {LiteralNumber(0), LiteralNumber(1), LiteralNumber(2)}}

RewriteInit ==
  /\ foldName \in FoldOps
  /\ foldArgs \in RewriteLists(foldName)
  /\ foldResult = Null
  /\ foldPc = "call"
  /\ OthersIdle("fold")

\* the values x and y can have at run time: every word for x, the words next
\* to 0, to a power of two and to the largest word for y
Environments == [x : Words, y : Operands]

\* the word an expression evaluates to
RECURSIVE EvalNode(_, _)
EvalNode(node, env) ==
  IF node.type = "Literal" THEN toBigInt(node)
  ELSE IF node.type = "Identifier"
    THEN (IF node.subtype = "x" THEN env.x ELSE env.y)
  ELSE Evm(node.subtype,
           [i \in 1 .. Len(node.args) |-> EvalNode(node.args[i], env)])

\* the replacement has the value of the call for every x and y
SameValue ==
  \A env \in Environments :
    EvalNode(foldResult, env) = EvalNode(Call(foldName, foldArgs), env)

\* C23: every replacement fold returns for a call with an argument that is
\* not a literal evaluates to the word the call evaluates to, for every
\* value of the arguments at run time.
RewriteSound == foldPc = "done" /\ foldResult # Null => SameValue

\* exp(0, x) has been replaced by 0, and is 1 when x is 0
ExpOfZeroBase ==
  /\ foldPc = "done"
  /\ foldName = "exp"
  /\ foldArgs = <<LiteralNumber(0), Identifier("x")>>
  /\ foldResult = LiteralNumber(0)
  /\ Evm("exp", <<0, 0>>) = 1

\* every other replacement has the value of the call
RewriteSoundButExp ==
  /\ foldPc = "done"
  /\ foldResult # Null
  /\ ~(foldName = "exp" /\ isZero(foldArgs[1]))
  => SameValue

\* iszero(lt(x, 0)) has been replaced by 1
ComparisonAtBoundary ==
  /\ foldPc = "done"
  /\ foldName = "iszero"
  /\ foldArgs = <<Call("lt", <<Identifier("x"), LiteralNumber(0)>>)>>
  /\ foldResult = LiteralNumber(1)

\* ---------------------------------------------------------------------------
\* The mutex of the locked methods (etc/builtins.yul) under nested calls

\* __mutex_check and __mutex_lock read the slot: storage up to shanghai,
\* transient storage above it
MutexHeld(version, slots) ==
  IF version > hardforks.shanghai THEN slots.transient # 0
  ELSE slots.storage = 2

\* a lock that takes the mutex without reading the slot
mutexLockUnchecked(version, slots) ==
  IF version > hardforks.shanghai
    THEN [reverted |-> FALSE, slots |-> [slots EXCEPT !.transient = 1]]
  ELSE [reverted |-> FALSE, slots |-> [slots EXCEPT !.storage = 2]]

\* function __mutex_lock()
mutexLock(version, slots) ==
  IF version > hardforks.shanghai
    THEN IF slots.transient # 0 THEN [reverted |-> TRUE, slots |-> slots]
         ELSE [reverted |-> FALSE, slots |-> [slots EXCEPT !.transient = 1]]
  ELSE IF slots.storage = 2 THEN [reverted |-> TRUE, slots |-> slots]
  ELSE [reverted |-> FALSE, slots |-> [slots EXCEPT !.storage = 2]]

\* function __mutex_unlock()
mutexUnlock(version, slots) ==
  IF version > hardforks.shanghai THEN [slots EXCEPT !.transient = 0]
  ELSE [slots EXCEPT !.storage = 1]

\* the deepest nesting of calls
MaxDepth == 3

\* the EVM versions a transformer can be built for
MutexVersions ==
  {hardforks[name] : name \in {h \in DOMAIN hardforks :
                                 Transformer(Options(h)).error = ""}}

\* the contracts: methods f and g, each locked or not
MutexContracts ==
  {<<Method(MethodNode("f", <<>>, "", mf, <<>>)),
     Method(MethodNode("g", <<>>, "", mg, <<>>))>> :
     mf \in Modifiers, mg \in Modifiers}

MutexInit ==
  /\ mutexVersion \in MutexVersions
  /\ mutexMethods \in MutexContracts
  /\ mutexState = [storage |-> 0, transient |-> 0]
  /\ mutexStack = <<>>
  /\ mutexEnded = [name |-> "", how |-> "none"]
  /\ OthersIdle("mutex")

Top == mutexStack[Len(mutexStack)]

\* the statement the innermost call is at
AtStatement(node) ==
  /\ Len(mutexStack) > 0
  /\ ~Top.inBody
  /\ Top.ip <= Len(Top.code)
  /\ Top.code[Top.ip] = node

\* the innermost call ends; transient storage lasts as long as the
\* transaction, and a call that reverts leaves the slots as it found them
Ends(how, slots) ==
  /\ mutexStack' = SubSeq(mutexStack, 1, Len(mutexStack) - 1)
  /\ mutexEnded' = [name |-> Top.method.name, how |-> how]
  /\ mutexState' =
       LET after == IF how \in {"checks", "lock", "revert"} THEN Top.saved
                    ELSE slots
       IN IF Len(mutexStack) = 1 THEN [after EXCEPT !.transient = 0]
          ELSE after

Continues(frame, slots) ==
  /\ mutexStack' = [mutexStack EXCEPT ![Len(mutexStack)] = frame]
  /\ mutexState' = slots
  /\ mutexEnded' = [name |-> "", how |-> "none"]

\* a call of the contract, from outside or from the body of a method, that
\* the dispatcher routes to the arm of a method: the checks of the arm pass
\* or revert
MutexCall ==
  /\ Len(mutexStack) < MaxDepth
  /\ Len(mutexStack) > 0 => Top.inBody
  /\ \E i \in 1 .. Len(mutexMethods), passes \in BOOLEAN :
       LET method == mutexMethods[i]
       IN IF passes
            THEN /\ mutexStack' =
                      Append(mutexStack,
                             [method |-> method,
                              code |-> GuardedPart(selectArm(method)),
                              ip |-> 1, inBody |-> FALSE,
                              saved |-> mutexState])
                 /\ mutexEnded' = [name |-> "", how |-> "none"]
                 /\ UNCHANGED mutexState
          ELSE /\ mutexEnded' = [name |-> method.name, how |-> "checks"]
               /\ UNCHANGED <<mutexStack, mutexState>>
  /\ UNCHANGED <<mutexVersion, mutexMethods>>
  /\ OthersUnchanged("mutex")

\* __mutex_lock() of the arm
MutexLock ==
  /\ AtStatement(Call("__mutex_lock", <<>>))
  /\ LET r == mutexLock(mutexVersion, mutexState)
     IN IF r.reverted THEN Ends("lock", mutexState)
        ELSE Continues([Top EXCEPT !.ip = @ + 1], r.slots)
  /\ UNCHANGED <<mutexVersion, mutexMethods>>
  /\ OthersUnchanged("mutex")

\* __method_<name>() of the arm: the body starts
MethodBody ==
  /\ AtStatement(MethodCallNode(Top.method.name))
  /\ Continues([Top EXCEPT !.inBody = TRUE], mutexState)
  /\ UNCHANGED <<mutexVersion, mutexMethods>>
  /\ OthersUnchanged("mutex")

\* the body ends: it runs to its end and the arm goes on, or it ends the
\* call with return (what returns(...) emits), stop or revert
BodyEnds ==
  /\ Len(mutexStack) > 0
  /\ Top.inBody
  /\ \E how \in {"leave", "return", "stop", "revert"} :
       IF how = "leave"
         THEN Continues([Top EXCEPT !.inBody = FALSE, !.ip = @ + 1],
                        mutexState)
       ELSE Ends(how, mutexState)
  /\ UNCHANGED <<mutexVersion, mutexMethods>>
  /\ OthersUnchanged("mutex")

\* __mutex_unlock() of the arm
MutexUnlock ==
  /\ AtStatement(Call("__mutex_unlock", <<>>))
  /\ Continues([Top EXCEPT !.ip = @ + 1],
               mutexUnlock(mutexVersion, mutexState))
  /\ UNCHANGED <<mutexVersion, mutexMethods>>
  /\ OthersUnchanged("mutex")

\* the arm is over and the call returns
ArmEnds ==
  /\ Len(mutexStack) > 0
  /\ ~Top.inBody
  /\ Top.ip > Len(Top.code)
  /\ Ends("end", mutexState)
  /\ UNCHANGED <<mutexVersion, mutexMethods>>
  /\ OthersUnchanged("mutex")

MutexNext ==
  \/ MutexCall
  \/ MutexLock
  \/ MethodBody
  \/ BodyEnds
  \/ MutexUnlock
  \/ ArmEnds

\* the calls that are in the body of a locked method
LockedBodies ==
  {i \in 1 .. Len(mutexStack) :
     mutexStack[i].inBody /\ mutexStack[i].method.modifier = "locked"}

\* C24: at most one body of a locked method is active at any time, whatever
\* the depth and the order of the nested calls: while one is, the slot
\* holds the locked value, and every nested call that reaches the arm of a
\* locked method is stopped at __mutex_lock, before the body.
OneLockedBody ==
  /\ Cardinality(LockedBodies) <= 1
  /\ LockedBodies # {} => MutexHeld(mutexVersion, mutexState)
  /\ \A i \in LockedBodies :
       \A j \in i + 1 .. Len(mutexStack) :
         mutexStack[j].method.modifier = "locked" => mutexStack[j].ip = 1

\* a nested call of a locked method has just reverted in __mutex_lock
\* inside the body of a locked method
NestedLockReverted ==
  /\ LockedBodies # {}
  /\ mutexEnded.how = "lock"
  /\ Len(mutexStack) >= 2

\* a call of a locked method has just ended without reverting
LockedCallReturned ==
  /\ mutexEnded.how \in {"end", "return", "stop"}
  /\ \E i \in 1 .. Len(mutexMethods) :
       /\ mutexMethods[i].name = mutexEnded.name
       /\ mutexMethods[i].modifier = "locked"

\* C25: whenever a call of a locked method ends without reverting, the
\* slot does not hold the locked value any more, so that the next call of a
\* locked method passes __mutex_lock; also when the body ends the call
\* itself with return (emitted by returns(...)) or with stop.
MutexReleased ==
  LockedCallReturned => ~MutexHeld(mutexVersion, mutexState)

\* a transaction that called a locked method has ended with return inside
\* the body and has left the locked value in the slot
MutexLeftLocked ==
  /\ LockedCallReturned
  /\ mutexEnded.how = "return"
  /\ mutexStack = <<>>
  /\ MutexHeld(mutexVersion, mutexState)

\* the slot is released by the calls that run the arm to its end, and is
\* left locked by every call whose body ends it with return or stop
MutexReleasedAtArmEnd ==
  LockedCallReturned =>
    (MutexHeld(mutexVersion, mutexState) <=> mutexEnded.how # "end")

\* ---------------------------------------------------------------------------
\* Wrapped constants (const x() := e) in sibling blocks

\* the function FunctionConstant(ident, value) builds, without its padding
ConstWrapperFunction(ident, value) ==
  [type |-> "FunctionDefinition", subtype |-> ident, value |-> <<>>,
   expr |-> value]

ConstWrapper(ident) ==
  [type |-> "ConstWrapper", subtype |-> ident, value |-> <<>>]

\* `__const_${name}_${scope.depth}`
WrapperIdent(name, depth) == "__const_" \o name \o "_" \o ToString(depth)

\* the statements of the input
BlockOpen == [type |-> "Block", subtype |-> "", value |-> <<>>]

BlockClose == [type |-> "BlockEnd", subtype |-> "", value |-> <<>>]

ConstDeclarationNode(name, expr, wrap) ==
  [type |-> "ConstDeclaration", subtype |-> name, value |-> <<>>,
   expr |-> expr, wrap |-> wrap]

\* the values declared
MaxWrapValue == 2

WrapValues == {LiteralNumber(v) : v \in 1 .. MaxWrapValue}

\* a block that declares x and uses it, and such a block with a nested
\* block that declares and uses its own x before the use of the outer one
WrapBlocks ==
  {<<BlockOpen, ConstDeclarationNode("x", v, w), Identifier("x"),
     BlockClose>> : v \in WrapValues, w \in BOOLEAN}
    \cup {<<BlockOpen, ConstDeclarationNode("x", v, w), BlockOpen>>
            \o <<ConstDeclarationNode("x", v2, w2), Identifier("x"),
                 BlockClose, Identifier("x"), BlockClose>> :
            v \in WrapValues, w \in BOOLEAN, v2 \in WrapValues,
            w2 \in BOOLEAN}

\* the most sibling blocks of the code block
MaxBlocks == 2

RECURSIVE WrapInputs(_)
WrapInputs(n) ==
  IF n = 0 THEN {<<>>}
  ELSE WrapInputs(n - 1)
         \cup {a \o b : a \in WrapInputs(n - 1), b \in WrapBlocks}

WrapInit ==
  /\ wrapInput \in WrapInputs(MaxBlocks) \ {<<>>}
  /\ wrapAt = 1
  /\ wrapChain = <<NewScope("Root", 0), NewScope("ObjectBlock", 1),
                   NewScope("CodeBlock", 2)>>
  /\ wrapOut = <<>>
  /\ wrapHelpers = {}
  /\ wrapPc = "open"
  /\ OthersIdle("wrap")

WrapAtType(type) ==
  /\ wrapPc = "open"
  /\ wrapAt <= Len(wrapInput)
  /\ wrapInput[wrapAt].type = type

\* rewrite case 'Block': scope.child(node) and the push of Transformer.block
WrapBlock ==
  /\ WrapAtType("Block")
  /\ wrapChain' = Append(wrapChain, NewScope("Block", Len(wrapChain)))
  /\ wrapAt' = wrapAt + 1
  /\ UNCHANGED <<wrapInput, wrapOut, wrapHelpers, wrapPc>>
  /\ OthersUnchanged("wrap")

\* rewrite case 'ConstDeclaration'
ConstDeclaration ==
  /\ WrapAtType("ConstDeclaration")
  /\ LET node == wrapInput[wrapAt]
         depth == wrapChain[Len(wrapChain)].depth
         ident == WrapperIdent(node.subtype, depth)
     IN IF ScopeAddError(wrapChain, "const", node.subtype)
          THEN /\ wrapPc' = "error"
               /\ UNCHANGED <<wrapChain, wrapAt>>
        ELSE /\ wrapChain' =
                  IF node.wrap
                    THEN ScopeAdd(ScopeAdd(wrapChain, "const", node.subtype,
                                           ConstWrapper(ident)),
                                  "func", ident,
                                  ConstWrapperFunction(ident, node.expr))
                  ELSE ScopeAdd(wrapChain, "const", node.subtype, node.expr)
             /\ wrapAt' = wrapAt + 1
             /\ UNCHANGED wrapPc
  /\ UNCHANGED <<wrapInput, wrapOut, wrapHelpers>>
  /\ OthersUnchanged("wrap")

\* rewrite case 'Identifier' of a replaceable identifier, with
\* scope.dependsOn(const_.ident) for a wrapped constant
WrapIdentifier ==
  /\ WrapAtType("Identifier")
  /\ LET node == wrapInput[wrapAt]
         const == ScopeFind(wrapChain, "const", node.subtype)
         func == ScopeFind(wrapChain, "func", const.subtype)
         code == findCodeScope(wrapChain)
     IN IF const.type = "ConstWrapper"
          THEN /\ wrapChain' =
                    [wrapChain EXCEPT
                       ![code].depends = TableSet(@, const.subtype, func)]
               /\ wrapOut' =
                    Append(wrapOut,
                           [node |-> Call(const.subtype, <<>>),
                            found |-> func])
        ELSE /\ wrapOut' = Append(wrapOut, [node |-> const, found |-> Null])
             /\ UNCHANGED wrapChain
  /\ wrapAt' = wrapAt + 1
  /\ UNCHANGED <<wrapInput, wrapHelpers, wrapPc>>
  /\ OthersUnchanged("wrap")

\* the end of Transformer.block for a block: its own depends map is empty,
\* nothing is generated, and the scope is popped
WrapBlockEnd ==
  /\ WrapAtType("BlockEnd")
  /\ wrapChain' = SubSeq(wrapChain, 1, Len(wrapChain) - 1)
  /\ wrapAt' = wrapAt + 1
  /\ UNCHANGED <<wrapInput, wrapOut, wrapHelpers, wrapPc>>
  /\ OthersUnchanged("wrap")

\* the end of Transformer.block for the code block: generate(scope) emits
\* the values of scope.depends
WrapGenerate ==
  /\ wrapPc = "open"
  /\ wrapAt > Len(wrapInput)
  /\ wrapHelpers' = {e[2] : e \in wrapChain[Len(wrapChain)].depends}
  /\ wrapPc' = "done"
  /\ UNCHANGED <<wrapInput, wrapAt, wrapChain, wrapOut>>
  /\ OthersUnchanged("wrap")

WrapNext ==
  \/ WrapBlock
  \/ ConstDeclaration
  \/ WrapIdentifier
  \/ WrapBlockEnd
  \/ WrapGenerate

\* the uses that were rewritten to the call of a helper
WrappedUses ==
  {i \in 1 .. Len(wrapOut) : wrapOut[i].node.type = "FunctionCall"}

\* the functions of the code block that a call names
HelpersCalled(i) ==
  {f \in wrapHelpers : f.subtype = wrapOut[i].node.subtype}

\* C26: blocks that each declare a wrapped constant x are independent:
\* every use of x calls the helper declared in the block of the use, also
\* when a sibling block at the same depth declares its own x, and the
\* declaration of one block never replaces the helper of the other.
WrappersIndependent ==
  wrapPc = "done" =>
    \A i \in WrappedUses : HelpersCalled(i) = {wrapOut[i].found}

\* two sibling blocks declare x() with different values, each uses it, and
\* the one helper that is generated is that of the second block
WrapperReplaced ==
  /\ wrapPc = "done"
  /\ \E i, j \in WrappedUses :
       /\ i < j
       /\ wrapOut[i].node = wrapOut[j].node
       /\ wrapOut[i].found # wrapOut[j].found
       /\ HelpersCalled(i) = {wrapOut[j].found}

\* every call names exactly one generated function, which is the helper
\* declared for the last use under that name: the uses that call another
\* block's helper are those followed by the use of a different helper of
\* the same name
WrapperOfLastUse ==
  wrapPc = "done" =>
    \A i \in WrappedUses :
      LET same == {j \in WrappedUses : wrapOut[j].node = wrapOut[i].node}
          last == CHOOSE j \in same : \A k \in same : k <= j
      IN HelpersCalled(i) = {wrapOut[last].found}

\* a use in a nested block calls the helper of its own depth
NestedWrapperKept ==
  /\ wrapPc = "done"
  /\ \E i, j \in WrappedUses :
       /\ wrapOut[i].node # wrapOut[j].node
       /\ wrapOut[i].found.expr # wrapOut[j].found.expr
       /\ HelpersCalled(i) = {wrapOut[i].found}
       /\ HelpersCalled(j) = {wrapOut[j].found}

\* ---------------------------------------------------------------------------
\* Transformer.generate at the end of a code block, one entry at a time

\* the scope of the code block of an object, and the transformer inside it
\* with the depends map of the code block
GenScope == CodeScope(ChildScope(RootScope, "ObjectBlock"), 2)

GenState(map) == [NewTransformer EXCEPT !.object = 0, !.depends = <<<<>>, map>>]

\* generate's push of an entry as it is
materialiseAsIs(node, scope, st) == [node |-> node, st |-> st]

\* the body of generate's loop: a builtin is rewritten, any other function
\* is pushed as it is
materialise(node, scope, st) ==
  IF node.builtin THEN rewrite(node, scope, st)
  ELSE [node |-> node, st |-> st]

\* statements that call helpers which call each other
CyclicCalls ==
  {Call("pop", <<Call("__even", <<Identifier("x")>>)>>),
   Call("pop", <<Call("__odd", <<Identifier("x")>>)>>)}

GenStatements == SimpleStatements \cup CyclicCalls

GenBodies ==
  SeqsUpTo(GenStatements
             \cup {Block(b) : b \in SeqsUpTo(GenStatements, MaxStatements)},
           MaxStatements)

GenInit ==
  /\ genBody \in GenBodies
  /\ genDepends = <<>>
  /\ genIndex = 0
  /\ genNodes = <<>>
  /\ genPc = "body"
  /\ OthersIdle("gen")

\* Transformer._block: one turn of the loop over node.body
GenBlockBody ==
  /\ genPc = "body"
  /\ genIndex < Len(genBody)
  /\ LET r == rewrite(genBody[genIndex + 1], GenScope, GenState(genDepends))
     IN /\ genNodes' = Append(genNodes, r.node)
        /\ genDepends' = r.st.depends[2]
  /\ genIndex' = genIndex + 1
  /\ UNCHANGED <<genBody, genPc>>
  /\ OthersUnchanged("gen")

\* Transformer._block: if (scope.depends.size > 0) after the loop
GenBlockTail ==
  /\ genPc = "body"
  /\ ~(genIndex < Len(genBody))
  /\ genPc' = IF Len(genDepends) > 0 THEN "generate" ELSE "done"
  /\ genIndex' = 0
  /\ UNCHANGED <<genBody, genDepends, genNodes>>
  /\ OthersUnchanged("gen")

\* one turn of generate's loop over scope.depends.values(): the iterator
\* reaches the entries that a rewrite adds
GenerateStep ==
  /\ genPc = "generate"
  /\ genIndex < Len(genDepends)
  /\ LET r == materialise(funcs[genDepends[genIndex + 1]], GenScope,
                          GenState(genDepends))
     IN /\ genNodes' = Append(genNodes, r.node)
        /\ genDepends' = r.st.depends[2]
  /\ genIndex' = genIndex + 1
  /\ UNCHANGED <<genBody, genPc>>
  /\ OthersUnchanged("gen")

\* generate returns and _block makes the block
GenerateReturn ==
  /\ genPc = "generate"
  /\ ~(genIndex < Len(genDepends))
  /\ genNodes' = filter(genNodes)
  /\ genPc' = "done"
  /\ UNCHANGED <<genBody, genDepends, genIndex>>
  /\ OthersUnchanged("gen")

GenNext ==
  \/ GenBlockBody
  \/ GenBlockTail
  \/ GenerateStep
  \/ GenerateReturn

\* the helpers a node calls
RECURSIVE HelpersIn(_)
HelpersIn(node) ==
  IF node.type = "FunctionCall"
    THEN (IF node.subtype \in DOMAIN funcs THEN {node.subtype} ELSE {})
           \cup UNION {HelpersIn(node.args[i]) : i \in 1 .. Len(node.args)}
  ELSE IF node.type = "Block"
    THEN UNION {HelpersIn(node.body[i]) : i \in 1 .. Len(node.body)}
  ELSE IF node.type = "FunctionDefinition" THEN HelpersIn(node.block)
  ELSE {}

\* the helpers reached from a set of helpers through the bodies of helpers
RECURSIVE HelpersFrom(_)
HelpersFrom(names) ==
  LET more == names \cup UNION {HelpersIn(funcs[n]) : n \in names}
  IN IF more = names THEN names ELSE HelpersFrom(more)

HelpersReferenced ==
  HelpersFrom(UNION {HelpersIn(genBody[i]) : i \in 1 .. Len(genBody)})

\* the generated block defines every helper referenced from the body,
\* directly or through helpers, once, and nothing else
GenClosed ==
  genPc = "done" =>
    \A name \in DOMAIN funcs :
      DefCount(genNodes, name) = IF name \in HelpersReferenced THEN 1 ELSE 0

\* the turns of generate's loop are bounded: the keys of scope.depends are
\* distinct names of scope.funcs, every turn visits one more of them and
\* emits one node, and generate returns when all are visited
GenBounded ==
  /\ genPc # "body" => genIndex <= Len(genDepends)
  /\ Len(genDepends) <= Cardinality(DOMAIN funcs)
  /\ \A i, j \in 1 .. Len(genDepends) :
       /\ genDepends[i] \in DOMAIN funcs
       /\ genDepends[i] = genDepends[j] => i = j
  /\ genPc = "generate" => Len(genNodes) = Len(genBody) + genIndex
  /\ genPc = "done" => genIndex = Len(genDepends)

\* C27: generate at the end of a code block terminates (its loop takes at
\* most one turn for each function of the library), the block then defines
\* every helper that its body references directly or only through the
\* bodies of other helpers, also helpers that call each other, and each
\* helper is rewritten and defined once.
Materialised == GenClosed /\ GenBounded

\* the body calls one of two helpers that call each other, and the block
\* defines both
CyclicMaterialised ==
  /\ genPc = "done"
  /\ HelpersIn(Block(genBody)) = {"__odd"}
  /\ DefCount(genNodes, "__odd") = 1
  /\ DefCount(genNodes, "__even") = 1

\* ---------------------------------------------------------------------------
\* receive and fallback on empty calldata

\* the wei sent with a call
CallValues == {0, 1}

\* the value of a check of an arm on a call
CheckEval(expr, data, callvalue) ==
  IF isCall(expr, "callvalue", 0) THEN callvalue
  ELSE DispatchEval(expr, data)

\* whether an arm reverts in the checks that precede the call of its method
ArmReverts(arm, data, callvalue) ==
  \E i \in 1 .. Len(arm.body) :
    /\ arm.body[i].type = "If"
    /\ arm.body[i].block = Block(<<Revert>>)
    /\ CheckEval(arm.body[i].expr, data, callvalue) # 0

\* the methods whose body a call runs
MethodsRun(dispatcher, data, callvalue) ==
  UNION {IF ArmReverts(arm, data, callvalue) THEN {} ELSE ArmTargets(arm) :
           arm \in Route(dispatcher.nodes[1], data)}

\* the dispatchers of a receive and a fallback method
DispatchersOfBoth ==
  {i \in Dispatchers :
     /\ HasMethod(MethodsBefore(i), "receive")
     /\ HasMethod(MethodsBefore(i), "fallback")}

\* C28 as stated: with a receive and a fallback method, a call with empty
\* calldata runs receive only if it carries a value, and runs fallback when
\* it carries none.
ReceiveOnlyWithValue ==
  \A i \in DispatchersOfBoth :
    /\ \A callvalue \in CallValues :
         "receive" \in MethodsRun(codeOut[i], <<>>, callvalue)
           => callvalue # 0
    /\ "fallback" \in MethodsRun(codeOut[i], <<>>, 0)

\* C28, amended: with a receive and a fallback method, a call with empty
\* calldata runs receive and nothing else, whatever value it carries
\* (receive is payable, its arm checks nothing); fallback is run by the
\* calls with 1 to 3 bytes of calldata, when it is payable or the call
\* carries no value.
ReceiveOnEmptyCalldata ==
  \A i \in DispatchersOfBoth :
    \A callvalue \in CallValues :
      /\ MethodsRun(codeOut[i], <<>>, callvalue) = {"receive"}
      /\ \A data \in {<<0>>, <<0, 0, 1>>} :
           MethodsRun(codeOut[i], data, callvalue) =
             IF \E k \in 1 .. Len(MethodsBefore(i)) :
                  /\ MethodsBefore(i)[k].name = "fallback"
                  /\ (MethodsBefore(i)[k].mutability = "payable"
                        \/ callvalue = 0)
               THEN {"fallback"} ELSE {}

\* a dispatcher of receive and a fallback that is not payable: the call
\* with empty calldata and no value runs receive
ReceiveWithoutValue ==
  \E i \in DispatchersOfBoth :
    /\ \E k \in 1 .. Len(MethodsBefore(i)) :
         /\ MethodsBefore(i)[k].name = "fallback"
         /\ MethodsBefore(i)[k].mutability # "payable"
    /\ MethodsRun(codeOut[i], <<>>, 0) = {"receive"}
    /\ MethodsRun(codeOut[i], <<0>>, 0) = {"fallback"}
    /\ MethodsRun(codeOut[i], <<0>>, 1) = {}

\* ---------------------------------------------------------------------------
\* do { B } while t

IsZero(expr) == Call("iszero", <<expr>>)

DoWhileNode(test, blk) == [type |-> "DoWhile", test |-> test, block |-> blk]

isZeroCast(node) == isCall(node, "iszero", 1) /\ isCall(node.args[1], "iszero", 1)

isGtCast(node) == isCall(node, "gt", 2) /\ isZero(node.args[2])

isNeqCall(node) == isCall(node, "iszero", 1) /\ isCall(node.args[1], "eq", 2)

\* ocj: optimize conditional jump
ocj(node) ==
  IF isZeroCast(node) THEN node.args[1].args[1]
  ELSE IF isGtCast(node) THEN node.args[1]
  ELSE IF isNeqCall(node)
    THEN Xor(node.args[1].args[1], node.args[1].args[2])
  ELSE node

\* `__ok_${scope.depth}`
OkName(depth) == "__ok_" \o ToString(depth)

\* rewrite case 'DoWhile' on a node whose block and test are rewritten
rewriteDoWhile(node, depth) ==
  LET test == ocj(node.test)
  IN IF test.type = "Identifier"
       THEN ForLoop(Block(<<>>), LiteralNumber(1), Block(<<>>),
                    Block(Append(node.block.body,
                                 If(IsZero(test),
                                    Block(<<BreakContinue("break")>>)))))
     ELSE ForLoop(Block(<<Let(Identifier(OkName(depth)), LiteralNumber(1))>>),
                  Identifier(OkName(depth)),
                  Block(<<Assign(OkName(depth), test)>>),
                  node.block)

\* the depth of the scope the loop is in
LoopDepth == 2

\* the largest value of x when the loop starts
MaxStart == 2

\* tests: an identifier, expressions that ocj reduces to one, and
\* expressions that stay calls
LoopTests ==
  {Identifier("x"),
   Call("gt", <<Identifier("x"), LiteralNumber(0)>>),
   IsZero(IsZero(Identifier("x"))),
   Call("gt", <<Identifier("x"), LiteralNumber(1)>>),
   IsZero(Eq(Identifier("x"), LiteralNumber(1)))}

\* bodies: x is counted down, and the body may end with continue
LoopBodies ==
  {Block(<<Assign("x", Call("sub", <<Identifier("x"), LiteralNumber(1)>>))>>),
   Block(<<Assign("x", Call("sub", <<Identifier("x"), LiteralNumber(1)>>)),
           BreakContinue("continue")>>)}

LoopInit ==
  /\ loopInput \in {DoWhileNode(t, b) : t \in LoopTests, b \in LoopBodies}
  /\ loopNode = Null
  /\ loopEnv \in {[x |-> v, ok |-> 0] : v \in 0 .. MaxStart}
  /\ loopAt = 0
  /\ loopEvents = <<"none", "none">>
  /\ loopPc = "input"
  /\ OthersIdle("loop")

\* the word an expression of the loop evaluates to
RECURSIVE LoopEval(_, _)
LoopEval(node, env) ==
  IF node.type = "Literal" THEN toBigInt(node)
  ELSE IF node.type = "Identifier"
    THEN (IF node.subtype = "x" THEN env.x ELSE env.ok)
  ELSE Evm(node.subtype,
           [i \in 1 .. Len(node.args) |-> LoopEval(node.args[i], env)])

\* the last two events after one more
Event(e) == <<loopEvents[2], e>>

\* the event of an evaluation of the test of the do .. while
Tested(env) ==
  Event(IF LoopEval(ocj(loopInput.test), env) # 0 THEN "nonzero" ELSE "zero")

\* rewrite case 'DoWhile'
DoWhile ==
  /\ loopPc = "input"
  /\ loopNode' = rewriteDoWhile(loopInput, LoopDepth)
  /\ loopPc' = "init"
  /\ UNCHANGED <<loopInput, loopEnv, loopAt, loopEvents>>
  /\ OthersUnchanged("loop")

\* the init block of the emitted for loop: empty, or let __ok := 1
ForInit ==
  /\ loopPc = "init"
  /\ loopEnv' =
       IF Len(loopNode.init.body) = 0 THEN loopEnv
       ELSE [loopEnv EXCEPT
               !.ok = LoopEval(loopNode.init.body[1].args[1], loopEnv)]
  /\ loopPc' = "test"
  /\ UNCHANGED <<loopInput, loopNode, loopAt, loopEvents>>
  /\ OthersUnchanged("loop")

\* the condition of the for loop: the body runs when it is not zero
ForTest ==
  /\ loopPc = "test"
  /\ IF LoopEval(loopNode.test, loopEnv) # 0
       THEN /\ loopPc' = "body"
            /\ loopAt' = 1
            /\ loopEvents' = Event("body")
       ELSE /\ loopPc' = "done"
            /\ UNCHANGED <<loopAt, loopEvents>>
  /\ UNCHANGED <<loopInput, loopNode, loopEnv>>
  /\ OthersUnchanged("loop")

\* one statement of the body of the for loop: an assignment to x, continue
\* (on to the update block), or the if with the break that ends the loop;
\* past the last statement the update block is next
ForBody ==
  /\ loopPc = "body"
  /\ IF loopAt > Len(loopNode.block.body)
       THEN /\ loopPc' = "update"
            /\ UNCHANGED <<loopEnv, loopAt, loopEvents>>
     ELSE LET stmt == loopNode.block.body[loopAt]
          IN IF stmt.type = "Assignment"
               THEN /\ loopEnv' =
                         [loopEnv EXCEPT
                            !.x = LoopEval(stmt.args[1], loopEnv)]
                    /\ loopAt' = loopAt + 1
                    /\ UNCHANGED <<loopPc, loopEvents>>
             ELSE IF stmt.type = "BreakContinue"
               THEN /\ loopPc' = IF stmt.value = "break" THEN "done"
                                 ELSE "update"
                    /\ UNCHANGED <<loopEnv, loopAt, loopEvents>>
             ELSE /\ loopEvents' = Tested(loopEnv)
                  /\ IF LoopEval(stmt.expr, loopEnv) # 0
                       THEN /\ loopPc' = "done"
                            /\ UNCHANGED loopAt
                     ELSE /\ loopAt' = loopAt + 1
                          /\ UNCHANGED loopPc
                  /\ UNCHANGED loopEnv
  /\ UNCHANGED <<loopInput, loopNode>>
  /\ OthersUnchanged("loop")

\* the update block of the for loop: empty, or __ok := test
ForUpdate ==
  /\ loopPc = "update"
  /\ IF Len(loopNode.update.body) = 0
       THEN UNCHANGED <<loopEnv, loopEvents>>
     ELSE /\ loopEnv' =
               [loopEnv EXCEPT
                  !.ok = LoopEval(loopNode.update.body[1].args[1], loopEnv)]
          /\ loopEvents' = Tested(loopEnv)
  /\ loopPc' = "test"
  /\ UNCHANGED <<loopInput, loopNode, loopAt>>
  /\ OthersUnchanged("loop")

LoopNext ==
  \/ DoWhile
  \/ ForInit
  \/ ForTest
  \/ ForBody
  \/ ForUpdate

\* what do .. while allows: the body first, the test after every run of
\* the body, the body again after a test that is not zero, the end after a
\* test that is zero
DoWhileOrder ==
  /\ loopEvents \in {<<"none", "none">>, <<"none", "body">>,
                     <<"body", "zero">>, <<"body", "nonzero">>,
                     <<"nonzero", "body">>}
  /\ loopPc = "done" => loopEvents[2] = "zero"

\* C29: the loop emitted for do { B } while t runs B once, evaluates t
\* after every run of B, and runs B again only while t is not zero; in both
\* forms of the loop (t an identifier or another expression), also when B
\* ends with continue.
DoWhileRuns == DoWhileOrder

\* the body ends with continue, the test is an identifier, and the body
\* has run twice in a row with no evaluation of the test between
TestSkipped ==
  /\ loopEvents = <<"body", "body">>
  /\ loopNode.test = LiteralNumber(1)
  /\ loopNode.block.body[Len(loopInput.block.body)] = BreakContinue("continue")

\* the order holds of every loop but the form for an identifier with a
\* body that ends with continue
DoWhileRunsButContinue ==
  ~(/\ ocj(loopInput.test).type = "Identifier"
    /\ BreakContinue("continue") \in
         {loopInput.block.body[i] : i \in 1 .. Len(loopInput.block.body)})
    => DoWhileOrder

\* the form with __ok and a body that ends with continue: the update block
\* has evaluated the test after the continue
ContinueTested ==
  /\ loopNode.type = "ForLoop"
  /\ loopNode.test = Identifier(OkName(LoopDepth))
  /\ loopNode.block.body[Len(loopNode.block.body)] = BreakContinue("continue")
  /\ loopEvents = <<"nonzero", "body">>

\* ---------------------------------------------------------------------------
\* The end of a block comment

\* the most characters after the opening of the comment
MaxComment == 5

\* a block comment is opened, and stars, slashes, line feeds and code follow
CommentInputs ==
  {<<"/", "*">> \o rest :
     rest \in UNION {[1 .. n -> {"*", "/", "a", "\n"}] : n \in 0 .. MaxComment}}

CommentInit ==
  /\ stripInput \in CommentInputs
  /\ stripIndex = 1
  /\ stripState = NONE
  /\ stripOutput = <<>>
  /\ stripFrom = <<>>
  /\ stripPc = "loop"
  /\ OthersIdle("strip")

\* the state of the scanner after the first n characters of an input that
\* it does not throw on
RECURSIVE StateAfter(_, _)
StateAfter(input, n) ==
  IF n = 0 THEN NONE
  ELSE IF input[n] = "\r" THEN StateAfter(input, n - 1)
  ELSE StripStep(StateAfter(input, n - 1), input[n]).state

\* the places i of the characters read where a slash follows a star that
\* was read in one of the states
ClosesFrom(states) ==
  {i \in 2 .. stripIndex - 1 :
     /\ stripInput[i - 1] = "*"
     /\ stripInput[i] = "/"
     /\ StateAfter(stripInput, i - 2) \in states}

\* the scanner is back in NONE after the slash at each of the places, and
\* the code that follows the slash is in the output
ClosedAt(places) ==
  /\ stripState = StateAfter(stripInput, stripIndex - 1)
  /\ \A i \in places :
       /\ StateAfter(stripInput, i) = NONE
       /\ (stripPc = "done" /\ i < Len(stripInput)
             /\ stripInput[i + 1] = "a")
            => \E k \in 1 .. Len(stripFrom) : stripFrom[k] = i + 1

\* C30: a block comment ends at the first star followed by a slash: from
\* MULTI or STAR, reading a star and then a slash brings the scanner back
\* to NONE, also when more stars precede the star, and what follows is
\* emitted as code.
BlockCommentCloses == ClosedAt(ClosesFrom({MULTI, STAR}))

\* the comment with two stars before the slash is not closed: the scanner
\* is still in MULTI at the end of the input and the code is not emitted
DoubleStarNotClosed ==
  /\ stripPc = "done"
  /\ stripInput = <<"/", "*", "*", "*", "/", "a">>
  /\ stripState = MULTI
  /\ stripOutput = <<>>

\* a star read in MULTI and followed by a slash does close the comment
BlockCommentClosesFromMulti == ClosedAt(ClosesFrom({MULTI}))

\* an empty comment and one with one star before the closing star are
\* closed, and the code after them is emitted
SingleStarClosed ==
  /\ stripPc = "done"
  /\ stripInput \in {<<"/", "*", "*", "/", "a">>,
                     <<"/", "*", "a", "*", "/", "a">>}
  /\ stripState = NONE
  /\ stripOutput = <<"a">>

\* ------------------------------------------------------------------------
\* Specifications
\* ------------------------------------------------------------------------

SpecFold == FoldInit /\ [][Fold]_vars

SpecRewrite == RewriteInit /\ [][Fold]_vars

SpecStruct == StructSpecInit /\ [][StructNext]_vars

SpecDeps == DepsInit /\ [][Transform]_vars

SpecIf == IfInit /\ [][Transform]_vars

SpecVersion == VersionInit /\ [][Transform]_vars

SpecCode == CodeInit /\ [][CodeNext]_vars

SpecCalldata == CalldataInit /\ [][CalldataNext]_vars

SpecScope == ScopeInit /\ [][ScopeNext]_vars

SpecAbi == AbiInit /\ [][AbiNext]_vars

SpecStrip == StripInit /\ [][StripNext]_vars

SpecNumber == NumberInit /\ [][NumberNext]_vars

\* the loops of NoInline and FunctionConstant run on
SpecPad == PadInit /\ [][PadNext]_vars /\ WF_vars(PadNext)

SpecPretty == PrettyInit /\ [][Pretty]_vars

SpecRound == RoundInit /\ [][RoundNext]_vars

SpecMutex == MutexInit /\ [][MutexNext]_vars

SpecWrap == WrapInit /\ [][WrapNext]_vars

SpecGen == GenInit /\ [][GenNext]_vars

SpecLoop == LoopInit /\ [][LoopNext]_vars

SpecComment == CommentInit /\ [][StripNext]_vars

====
